---- MODULE Spec2Model ----
(***************************************************************************)
(* Model of the polyautomate backtesting core.                             *)
(*                                                                         *)
(*   Spec      BacktestEngine.run: the bar-by-bar replay, the execution    *)
(*             price model, the exit triggers and the Trade P&L.           *)
(*   SpecCache BacktestEngine._fetch_data / prefetch_data over the disk    *)
(*             cache and the data provider.                                *)
(*   SpecKey   _normalise_ts / _cache_key as pure functions.               *)
(*   SpecGet   PMDClient._get: the rate-limit retry of the REST client.    *)
(*   SpecLongshot  LongshotBiasStrategy: construction and on_step calls.   *)
(*   SpecMacd  MACDMomentumStrategy.on_step as the simulation loop of      *)
(*             BacktestEngine.run calls it.                                *)
(*   SpecRsi   RSIMeanReversionStrategy.on_step as a function.             *)
(*   SpecInd   rsi, bollinger, macd, momentum, realized_vol as functions.  *)
(*   SpecBook  book_imbalance, book_pressure as functions.                 *)
(*   SpecScan  scan_optimal_entries and EntryProfile.distance.             *)
(*   SpecWilson  wilson_ci as a function.                                  *)
(*   SpecTwin  two runs of BacktestEngine.run over the same data.          *)
(*   SpecSize  _compute_order_size as a function.                          *)
(*   SpecBal   _fetch_usdc_balance as a function.                          *)
(*   SpecExec  run_once of the longshot executor, cycle after cycle.       *)
(*   SpecWindow  the sliding windows of BacktestEngine.run.                *)
(*   SpecDrawdown  BacktestResult.max_drawdown as a function.              *)
(*   SpecWhale  WhaleWatcherStrategy.on_step, call after call.             *)
(*   SpecRace  two engines fetching one key through one cache directory.   *)
(*   SpecReplay  BacktestEngine.run from the fetched series on, with       *)
(*             LongshotBiasStrategy as the strategy.                       *)
(*                                                                         *)
(* Prices are probabilities in ticks of 0.01 (50 is 0.50); fee_rate is in  *)
(* percent, so the net pnl is carried times 100.  The series of bars is    *)
(* read one bar per iteration, so the model draws each bar when the loop   *)
(* reaches it; the series ends after any bar from the first on.            *)
(***************************************************************************)
EXTENDS Integers, Sequences, FiniteSets, TLC

VARIABLES
    \* ---- BacktestEngine.run ----
    pc,             \* "call" | "bar" | "entry" | "done" | "raised"
    raw_prices,     \* prices_by_label.get(token_label, []): "absent" | "empty" | "series"
    args,           \* stop_loss, take_profit, hold_periods, fee_rate, history_window
    bar,            \* the bar of the current iteration: [ts, price, book]
    n_bars,         \* bars processed so far
    price_window,
    book_window,
    open_trade,     \* None or Some(_OpenPosition)
    trades,         \* result.trades
    result,         \* None until run returns, then Some(trades)
    \* ---- observation of the run (not program state) ----
    opened,         \* positions opened so far
    entry_obs,      \* None or Some([id, bar]): the bar on which open_trade was opened
    exit_check,     \* None or Some(...): the last _check_exit call and its outcome
    audit,          \* per Trade: the bars and books it was built from
    on_step_calls,  \* strategy.on_step invocations
    on_step_result, \* None or Some(what on_step returned on the current bar)
    open_after_loop,\* None inside the loop, then Some(BOOLEAN)
    \* ---- disk cache and provider ----
    cache_dir,      \* TRUE when the engine has a cache directory
    cache,          \* key -> None or Some(saved payload)
    calls,          \* log of run/_fetch_data and prefetch_data calls
    \* ---- _cache_key as a function ----
    kreq,           \* the two requests
    kout,           \* None or Some(<<key1, key2>>)
    \* ---- PMDClient._get ----
    g_retry,        \* self._retry_on_rate_limit
    g_pc,           \* "ready" | "loop" | "done"
    g_attempt,      \* the loop variable of `for attempt in range(2)`
    g_resps,        \* the responses to the requests of the current call
    g_waits,        \* the time.sleep calls of the current call
    g_outcome,      \* None, or Some of what the call returned or raised
    g_done,         \* calls finished so far
    \* ---- LongshotBiasStrategy ----
    ls_pc,          \* "new" | "live" | "ValueError"
    ls_args,        \* the constructor's arguments
    ls_self,        \* None or Some(the strategy object)
    ls_calls,       \* the on_step calls so far: price and returned signal
    \* ---- MACDMomentumStrategy in a run ----
    mm_cfg,         \* the strategy's and the run's parameters
    mm_self,        \* the strategy object: _prev_histogram
    mm_window,      \* price_window
    mm_open,        \* open_trade
    mm_log,         \* per bar: price, MACD histogram, on_step called, signal
    \* ---- RSIMeanReversionStrategy.on_step as a function ----
    rs_in,
    rs_out,
    \* ---- the indicators as functions ----
    ind_in,
    ind_out,
    bk_in,
    bk_out,
    \* ---- scan_optimal_entries and EntryProfile.distance ----
    sc_in,
    sc_out,
    sc_dist,        \* None or Some([row, distance])
    \* ---- wilson_ci as a function ----
    wl_in,
    wl_out,
    \* ---- two runs of BacktestEngine.run ----
    tw_cfg,         \* the parameters of both runs and of both strategies
    tw_prices,      \* the price series of both runs
    tw_run,         \* 1 | 2: the run in progress; 3: both returned
    tw_pos,         \* bars processed by the run in progress
    tw_st,          \* its locals and its strategy object
    tw_first,       \* None or Some(result.trades of the first run)
    tw_second,
    \* ---- _compute_order_size and _fetch_usdc_balance as functions ----
    sz_in,
    sz_out,
    fb_in,
    fb_out,
    \* ---- run_once ----
    ex_env,         \* DRY_RUN = 1, the keys that are set, the guardrail switch
    ex_file,        \* the state file: None or Some(state)
    ex_now,         \* datetime.now() of the latest cycle, in ticks
    ex_pc,          \* "idle" | "hold" | "scan" | "orders"
    ex_state,       \* the `state` dict of the cycle in progress
    ex_todo,        \* what the loop in progress has yet to visit
    ex_actions,     \* the `actions` counter
    ex_live,        \* live_bankroll_usd
    ex_obs,         \* observation of the latest cycle (not program state)
    ex_cycles,      \* cycles finished
    \* ---- the sliding windows ----
    wn_hw,          \* history_window
    wn_seen,        \* the bars read so far
    wn_prices,      \* price_window
    wn_books,       \* book_window
    \* ---- BacktestResult.max_drawdown as a function ----
    dd_in,          \* result.trades
    dd_out,
    \* ---- WhaleWatcherStrategy.on_step ----
    wh_self,        \* _bid_notionals, _ask_notionals, _prev_imbalance
    wh_prices,      \* the prices of the bars so far: the caller's price_history
    wh_last,        \* the latest call: what it was given and returned
    wh_n,           \* calls so far
    \* ---- two engines and one cache directory ----
    rc_pc,          \* per engine: where it is in _fetch_data / prefetch_data
    rc_file,        \* <key>.json: whether it exists, is whole, and who writes it
    rc_got,         \* per engine: its latest call and what the load found
    rc_obs,         \* per engine: calls, provider fetches and writes so far
    \* ---- BacktestEngine.run over a fetched series ----
    rp_cfg,         \* the arguments of run and of the strategy
    rp_fetched,     \* _extract_price_series(raw_prices), in the fetched order
    rp_pc,          \* "sort" | "loop" | "done"
    rp_st,          \* the locals of run and the strategy object
    rp_log          \* what happened on each bar replayed

engineVars == <<pc, raw_prices, args, bar, n_bars, price_window, book_window,
                open_trade, trades, result, opened, entry_obs, exit_check,
                audit, on_step_calls, on_step_result, open_after_loop>>
cacheVars == <<cache_dir, cache, calls>>
keyVars == <<kreq, kout>>
apiVars == <<g_retry, g_pc, g_attempt, g_resps, g_waits, g_outcome, g_done>>
lsVars == <<ls_pc, ls_args, ls_self, ls_calls>>
mmVars == <<mm_cfg, mm_self, mm_window, mm_open, mm_log>>
rsVars == <<rs_in, rs_out>>
strategyVars == <<lsVars, mmVars, rsVars>>
indicatorVars == <<ind_in, ind_out, bk_in, bk_out>>
otherVars == <<apiVars, strategyVars, indicatorVars>>
coreVars == <<engineVars, cacheVars, keyVars>>
scanVars == <<sc_in, sc_out, sc_dist>>
statVars == <<wl_in, wl_out>>
twinVars == <<tw_cfg, tw_prices, tw_run, tw_pos, tw_st, tw_first, tw_second>>
sizeVars == <<sz_in, sz_out>>
balVars == <<fb_in, fb_out>>
runVars == <<ex_env, ex_file, ex_now, ex_pc, ex_state, ex_todo, ex_actions,
             ex_live, ex_obs, ex_cycles>>
execVars == <<sizeVars, balVars, runVars>>
windowVars == <<wn_hw, wn_seen, wn_prices, wn_books>>
laterVars == <<scanVars, statVars, twinVars, execVars, windowVars>>
drawdownVars == <<dd_in, dd_out>>
whaleVars == <<wh_self, wh_prices, wh_last, wh_n>>
raceVars == <<rc_pc, rc_file, rc_got, rc_obs>>
replayVars == <<rp_cfg, rp_fetched, rp_pc, rp_st, rp_log>>
lastVars == <<drawdownVars, whaleVars, raceVars, replayVars>>
vars == <<engineVars, cacheVars, keyVars, otherVars, laterVars, lastVars>>

(***************************************************************************)
(* Optional values (Python None)                                           *)
(***************************************************************************)
None == <<>>
Some(x) == <<x>>

(***************************************************************************)
(* Bounds and input domains                                                *)
(***************************************************************************)
MaxBars == 3
MaxCalls == 3

Prices == {42, 50, 80}
\* book snapshots; a side is a list of [price, size] levels, best first
Books == {[bids |-> <<>>, asks |-> <<>>],
          [bids |-> <<<<48, 10>>, <<47, 5>>>>, asks |-> <<<<52, 10>>>>],
          [bids |-> <<<<0, 10>>>>, asks |-> <<>>]}
StopLosses == {5}
TakeProfits == {8}
HoldPeriods == {1, 2}
HistoryWindows == {1, 2}
FeeRates == {0, 2}
\* what strategy.on_step may return: None, or a TradeSignal of that direction
StrategyResults == {"none", "hold", "buy", "sell"}

(***************************************************************************)
(* analytics/models.py                                                     *)
(***************************************************************************)
BUY == "buy"
SELL == "sell"
HOLD == "hold"

TradeSignal(ts, dir, price) ==
    [timestamp |-> ts, signal |-> dir, price_at_signal |-> price]

Trade(sig, entry, exit, ts, reason, fee) ==
    [signal |-> sig, entry_price |-> entry, exit_price |-> exit,
     exit_timestamp |-> ts, exit_reason |-> reason, fee_rate |-> fee]

gross_pnl_unsigned(t) == t.exit_price - t.entry_price

gross_pnl(t) ==
    LET raw == t.exit_price - t.entry_price
    IN  IF t.signal.signal = BUY THEN raw ELSE -raw

pnl_fee_on_entry_only(t) == 100 * gross_pnl(t) - t.fee_rate * t.entry_price

\* net pnl times 100 (fee_rate is in percent)
pnl(t) ==
    LET round_trip_cost == t.fee_rate * (t.entry_price + t.exit_price)
    IN  100 * gross_pnl(t) - round_trip_cost

(***************************************************************************)
(* analytics/engine.py: internal helpers                                   *)
(***************************************************************************)
\* Python's `x or y` on an optional float: None and 0.0 are both falsy
PyOr(x, y) == IF x = None \/ x[1] = 0 THEN y ELSE x[1]

_best_bid(book) == IF book.bids # <<>> THEN Some(book.bids[1][1]) ELSE None

_best_ask(book) == IF book.asks # <<>> THEN Some(book.asks[1][1]) ELSE None

_entry_exec_price_mid(signal, book, mid) == mid

_entry_exec_price(signal, book, mid) ==
    IF signal = BUY THEN PyOr(_best_ask(book), mid)
    ELSE PyOr(_best_bid(book), mid)

_exit_exec_price_same_side(signal, book, mid) ==
    IF signal = BUY THEN PyOr(_best_ask(book), mid)
    ELSE PyOr(_best_bid(book), mid)

_exit_exec_price(signal, book, mid) ==
    IF signal = BUY THEN PyOr(_best_bid(book), mid)
    ELSE PyOr(_best_ask(book), mid)

_OpenPosition(sig, entry_price, entry_mid, bars_held) ==
    [signal |-> sig, entry_price |-> entry_price, entry_mid |-> entry_mid,
     bars_held |-> bars_held]

_check_exit_from_entry_price(pos, current_price, stop_loss, take_profit, hold_periods) ==
    LET is_buy == pos.signal.signal = BUY
        price_move == current_price - pos.entry_price
        directional_move == IF is_buy THEN price_move ELSE -price_move
    IN  IF directional_move >= take_profit THEN Some("take_profit")
        ELSE IF directional_move <= -stop_loss THEN Some("stop_loss")
        ELSE IF pos.bars_held >= hold_periods THEN Some("timeout")
        ELSE None

_check_exit_timeout_one_bar_late(pos, current_price, stop_loss, take_profit, hold_periods) ==
    LET is_buy == pos.signal.signal = BUY
        price_move == current_price - pos.entry_mid
        directional_move == IF is_buy THEN price_move ELSE -price_move
    IN  IF directional_move >= take_profit THEN Some("take_profit")
        ELSE IF directional_move <= -stop_loss THEN Some("stop_loss")
        ELSE IF pos.bars_held > hold_periods THEN Some("timeout")
        ELSE None

_check_exit_direction_ignored(pos, current_price, stop_loss, take_profit, hold_periods) ==
    LET directional_move == current_price - pos.entry_mid
    IN  IF directional_move >= take_profit THEN Some("take_profit")
        ELSE IF directional_move <= -stop_loss THEN Some("stop_loss")
        ELSE IF pos.bars_held >= hold_periods THEN Some("timeout")
        ELSE None

_check_exit(pos, current_price, stop_loss, take_profit, hold_periods) ==
    LET is_buy == pos.signal.signal = BUY
        price_move == current_price - pos.entry_mid
        directional_move == IF is_buy THEN price_move ELSE -price_move
    IN  IF directional_move >= take_profit THEN Some("take_profit")
        ELSE IF directional_move <= -stop_loss THEN Some("stop_loss")
        ELSE IF pos.bars_held >= hold_periods THEN Some("timeout")
        ELSE None

(***************************************************************************)
(* analytics/engine.py: BacktestEngine.run                                 *)
(***************************************************************************)
NoPriceData_absent_label_only(raw) == raw = "absent"

\* `if not raw_prices`: the label is absent (default []) or its list is empty
NoPriceData(raw) == raw # "series"

AppendWindow_evicting_newest(window, x, history_window) ==
    IF Len(window) >= history_window THEN window ELSE Append(window, x)

\* price_window.append(price); if len(price_window) > history_window: pop(0)
AppendWindow(window, x, history_window) ==
    LET appended == Append(window, x)
    IN  IF Len(appended) > history_window THEN Tail(appended) ELSE appended

CanEnter_before_window_full(ot, window, history_window) == ot = None

CanEnter_ignoring_slot(ot, window, history_window) ==
    Len(window) >= history_window

\* `if open_trade is None and len(price_window) >= self._history_window`
CanEnter(ot, window, history_window) ==
    ot = None /\ Len(window) >= history_window

NeedsFinalClose_never(ot, n_series) == FALSE

\* `if open_trade is not None and price_series`
NeedsFinalClose(ot, n_series) == ot # None /\ n_series > 0

AppendTrade_twice(trs, t) == trs \o <<t, t>>

\* result.trades.append(trade)
AppendTrade(trs, t) == Append(trs, t)

EndOfDataReason_timeout == "timeout"

EndOfDataReason == "end_of_data"

EngineInit ==
    /\ pc = "call"
    /\ raw_prices \in {"absent", "empty", "series"}
    /\ args \in [stop_loss : StopLosses, take_profit : TakeProfits,
                 hold_periods : HoldPeriods, fee_rate : FeeRates,
                 history_window : HistoryWindows]
    /\ bar = None
    /\ n_bars = 0
    /\ price_window = <<>>
    /\ book_window = <<>>
    /\ open_trade = None
    /\ trades = <<>>
    /\ result = None
    /\ opened = 0
    /\ entry_obs = None
    /\ exit_check = None
    /\ audit = <<>>
    /\ on_step_calls = 0
    /\ on_step_result = None
    /\ open_after_loop = None

EngineIdle ==
    /\ pc = "idle"
    /\ raw_prices = "absent"
    /\ args = None
    /\ bar = None
    /\ n_bars = 0
    /\ price_window = <<>>
    /\ book_window = <<>>
    /\ open_trade = None
    /\ trades = <<>>
    /\ result = None
    /\ opened = 0
    /\ entry_obs = None
    /\ exit_check = None
    /\ audit = <<>>
    /\ on_step_calls = 0
    /\ on_step_result = None
    /\ open_after_loop = None

\* lines 213-220: the label's series is looked up and an empty one raises
CheckData ==
    /\ pc = "call"
    /\ pc' = IF NoPriceData(raw_prices) THEN "raised" ELSE "bar"
    /\ UNCHANGED <<raw_prices, args, bar, n_bars, price_window, book_window,
                   open_trade, trades, result, opened, entry_obs, exit_check,
                   audit, on_step_calls, on_step_result, open_after_loop,
                   cacheVars, laterVars, lastVars, keyVars, otherVars>>

\* lines 242-277: the next bar is read, the windows slide, and an open
\* position is checked for exit
BarExit ==
    /\ pc = "bar"
    /\ raw_prices = "series"
    /\ n_bars < MaxBars
    /\ \E price \in Prices, book \in Books :
         LET ts == n_bars + 1
             exit_reason ==
                 IF open_trade # None
                 THEN _check_exit(open_trade[1], price, args.stop_loss,
                                  args.take_profit, args.hold_periods)
                 ELSE None
             exits == open_trade # None /\ exit_reason # None
             exec_exit == _exit_exec_price(open_trade[1].signal.signal, book, price)
             trade == Trade(open_trade[1].signal, open_trade[1].entry_price,
                            exec_exit, ts, exit_reason[1], args.fee_rate)
         IN  /\ bar' = Some([ts |-> ts, price |-> price, book |-> book])
             /\ price_window' = AppendWindow(price_window, price, args.history_window)
             /\ book_window' = AppendWindow(book_window, book, args.history_window)
             /\ trades' = IF exits THEN AppendTrade(trades, trade) ELSE trades
             /\ open_trade' = IF exits THEN None ELSE open_trade
             /\ exit_check' =
                    IF open_trade # None
                    THEN Some([pos |-> entry_obs[1], price |-> price,
                               bars_held |-> open_trade[1].bars_held,
                               outcome |-> exit_reason])
                    ELSE None
             /\ audit' =
                    IF exits
                    THEN Append(audit, [pos |-> entry_obs[1],
                                        exit_price |-> price, exit_book |-> book,
                                        in_loop |-> TRUE])
                    ELSE audit
    /\ n_bars' = n_bars + 1
    /\ on_step_result' = None
    /\ pc' = "entry"
    /\ UNCHANGED <<raw_prices, args, result, opened, entry_obs, on_step_calls,
                   open_after_loop, cacheVars, laterVars, lastVars, keyVars, otherVars>>

\* lines 279-305: the strategy is asked when the slot is empty and the window
\* is full, a non-HOLD signal opens a position, bars_held is incremented
BarEntry ==
    /\ pc = "entry"
    /\ \E r \in StrategyResults :
         LET asked == CanEnter(open_trade, price_window, args.history_window)
             enters == asked /\ r # "none" /\ r # HOLD
             b == bar[1]
             signal == TradeSignal(b.ts, r, b.price)
             exec_entry == _entry_exec_price(r, b.book, b.price)
             entered == IF enters
                        THEN Some(_OpenPosition(signal, exec_entry, b.price, 0))
                        ELSE open_trade
         IN  /\ (~asked => r = "none")
             /\ open_trade' =
                    IF entered # None
                    THEN Some([entered[1] EXCEPT !.bars_held = @ + 1])
                    ELSE None
             /\ on_step_calls' = on_step_calls + (IF asked THEN 1 ELSE 0)
             /\ on_step_result' = IF asked THEN Some(r) ELSE None
             /\ opened' = opened + (IF enters THEN 1 ELSE 0)
             /\ entry_obs' =
                    IF enters
                    THEN Some([id |-> opened + 1, dir |-> r, bar |-> b,
                               slot_was_empty |-> open_trade = None])
                    ELSE entry_obs
    /\ pc' = "bar"
    /\ UNCHANGED <<raw_prices, args, bar, n_bars, price_window, book_window,
                   trades, result, exit_check, audit, open_after_loop, cacheVars, laterVars, lastVars, keyVars, otherVars>>

\* lines 307-324: the series is exhausted; a position still open is closed at
\* the last bar and the result is returned
EndOfData ==
    /\ pc = "bar"
    /\ raw_prices = "series" => n_bars >= 1
    /\ LET closes == NeedsFinalClose(open_trade, n_bars)
           last_bar == bar[1]
           exec_exit == _exit_exec_price(open_trade[1].signal.signal,
                                         last_bar.book, last_bar.price)
           trade == Trade(open_trade[1].signal, open_trade[1].entry_price,
                          exec_exit, last_bar.ts, EndOfDataReason, args.fee_rate)
           closed == IF closes THEN AppendTrade(trades, trade) ELSE trades
       IN  /\ trades' = closed
           /\ result' = Some(closed)
           /\ audit' =
                  IF closes
                  THEN Append(audit, [pos |-> entry_obs[1],
                                      exit_price |-> last_bar.price,
                                      exit_book |-> last_bar.book,
                                      in_loop |-> FALSE])
                  ELSE audit
    /\ open_after_loop' = Some(open_trade # None)
    /\ pc' = "done"
    /\ UNCHANGED <<raw_prices, args, bar, n_bars, price_window, book_window,
                   open_trade, opened, entry_obs, exit_check, on_step_calls,
                   on_step_result, cacheVars, laterVars, lastVars, keyVars, otherVars>>

(***************************************************************************)
(* analytics/engine.py: _normalise_ts and _cache_key                       *)
(*                                                                         *)
(* A string is the sequence of its characters.  A numeric timestamp (int   *)
(* or float) is carried in half seconds, so 141 is 70.5; a textual one     *)
(* carries its characters and, for the claims only, the minute it denotes. *)
(***************************************************************************)
Digits == <<"0", "1", "2", "3", "4", "5", "6", "7", "8", "9">>

Two(n) == <<Digits[(n \div 10) + 1], Digits[(n % 10) + 1]>>

\* "2024-10-DDTHH:MM:SS" followed by a zone suffix
IsoChars(day, h, m, sec, zone) ==
    <<"2", "0", "2", "4", "-", "1", "0", "-">> \o Two(day) \o <<"T">> \o Two(h)
        \o <<":">> \o Two(m) \o <<":">> \o Two(sec) \o zone

Iso(day, h, m, sec, zone) ==
    [kind |-> "iso", chars |-> IsoChars(day, h, m, sec, zone),
     minute |-> (day * 24 + h) * 60 + m]

\* "2024-10-DDTHH:MM": a timestamp written to the minute
IsoMinute(day, h, m) ==
    [kind |-> "iso",
     chars |-> SubSeq(IsoChars(day, h, m, 0, <<>>), 1, 16),
     minute |-> (day * 24 + h) * 60 + m]

Unix(halves) == [kind |-> "num", halves |-> halves]

\* the minute a timestamp falls in
MinuteBucket(v) == IF v.kind = "num" THEN v.halves \div 120 ELSE v.minute

\* int(value): truncation towards zero
PyInt(v) == IF v.halves >= 0 THEN v.halves \div 2 ELSE -((-v.halves) \div 2)

RECURSIVE NatStr(_)
NatStr(n) == IF n < 10 THEN <<Digits[n + 1]>>
             ELSE NatStr(n \div 10) \o <<Digits[(n % 10) + 1]>>

\* str(n) of an integer
PyStr(n) == IF n < 0 THEN <<"-">> \o NatStr(-n) ELSE NatStr(n)

\* s[:k]
Prefix(chars, k) == SubSeq(chars, 1, IF Len(chars) < k THEN Len(chars) ELSE k)

_normalise_ts_to_second(value) ==
    IF value.kind = "num"
    THEN PyStr(PyInt(value))
    ELSE Prefix(value.chars, 19)

_normalise_ts(value) ==
    IF value.kind = "num"
    THEN PyStr((PyInt(value) \div 60) * 60)
    ELSE Prefix(value.chars, 16)

\* hashlib.sha1(raw.encode()).hexdigest()[:16]: a function of raw alone; the
\* digest is not computed and collisions are not modelled
Sha1Hex16(raw) == [sha1_16_of |-> raw]

_cache_key(market_id, start_ts, end_ts, resolution) ==
    LET raw == market_id \o <<"|">> \o _normalise_ts(start_ts) \o <<"|">>
               \o _normalise_ts(end_ts) \o <<"|">> \o resolution
    IN  Sha1Hex16(raw)

KeyOf(req) == _cache_key(req.market_id, req.start_ts, req.end_ts, req.resolution)

Markets == {<<"m", "1">>, <<"m", "2">>}
Resolutions == {<<"1", "h">>, <<"1", "m">>}
StartInputs == {Unix(0), Unix(119), Unix(141), Unix(239), Unix(240),
                Iso(1, 6, 0, 0, <<>>), Iso(1, 6, 0, 10, <<>>),
                Iso(1, 6, 0, 10, <<"Z">>), Iso(1, 6, 1, 5, <<>>),
                IsoMinute(1, 6, 0)}
EndInputs == {Unix(7200), Unix(7220), Unix(7320),
              Iso(2, 6, 0, 0, <<>>), Iso(2, 6, 0, 10, <<>>),
              Iso(2, 6, 10, 0, <<>>)}
KeyRequests == [market_id : Markets, start_ts : StartInputs,
                end_ts : EndInputs, resolution : Resolutions]

KeyInit == kreq \in KeyRequests \X KeyRequests /\ kout = None

KeyIdle == kreq = None /\ kout = None

\* both requests are keyed
ComputeKeys ==
    /\ kreq # None
    /\ kout = None
    /\ kout' = Some(<<KeyOf(kreq[1]), KeyOf(kreq[2])>>)
    /\ UNCHANGED <<kreq, engineVars, cacheVars, laterVars, lastVars, otherVars>>

(***************************************************************************)
(* analytics/engine.py: the disk cache, _fetch_data and prefetch_data      *)
(***************************************************************************)
\* the requests made of one engine: two of them ten seconds apart
CacheRequests ==
    {[market_id |-> <<"m", "1">>, start_ts |-> Iso(1, 6, 0, 0, <<>>),
      end_ts |-> Iso(2, 6, 0, 0, <<>>), resolution |-> <<"1", "h">>],
     [market_id |-> <<"m", "1">>, start_ts |-> Iso(1, 6, 0, 10, <<>>),
      end_ts |-> Iso(2, 6, 0, 10, <<>>), resolution |-> <<"1", "h">>],
     [market_id |-> <<"m", "2">>, start_ts |-> Iso(1, 6, 0, 0, <<>>),
      end_ts |-> Iso(2, 6, 0, 0, <<>>), resolution |-> <<"1", "h">>]}
CacheKeys == {KeyOf(req) : req \in CacheRequests}

\* what the provider does when asked: get_prices raises, or returns the
\* label's series (absent, empty or not), and then get_books raises or returns
ProviderOutcomes ==
    {[prices |-> "error", books |-> "not_called"]}
        \cup [prices : {"absent", "empty", "series"}, books : {"error", "ok"}]

_cache_load_missing(files, key) == None

\* os.path.exists(path) and json.load
_cache_load(files, key) == files[key]

_cache_save_nothing(files, key, data) == files

\* json.dump to <key>.json
_cache_save(files, key, data) == [files EXCEPT ![key] = Some(data)]

\* truthiness of a loaded dict
Truthy(loaded) == loaded # None /\ DOMAIN loaded[1] # {}

Payload(outcome) == [prices |-> outcome.prices, books |-> outcome.books]

CacheInit ==
    /\ cache_dir \in BOOLEAN
    /\ cache = [k \in CacheKeys |-> None]
    /\ calls = <<>>

CacheIdle == cache_dir = FALSE /\ cache = None /\ calls = <<>>

\* run up to the label check: _fetch_data (lines 366-387), then ValueError
\* or the replay (lines 209-220)
RunFetchData ==
    /\ Len(calls) < MaxCalls
    /\ \E req \in CacheRequests, p \in ProviderOutcomes :
         LET key == KeyOf(req)
             cached == IF cache_dir THEN _cache_load(cache, key) ELSE None
             hit == cache_dir /\ Truthy(cached)
             fetched == p.prices # "error" /\ p.books # "error"
             data == IF hit THEN cached[1] ELSE Payload(p)
         IN  /\ hit => p = [prices |-> "error", books |-> "not_called"]
             /\ cache' = IF ~hit /\ fetched /\ cache_dir
                         THEN _cache_save(cache, key, Payload(p))
                         ELSE cache
             /\ calls' = Append(calls,
                    [op |-> "run", req |-> req, key |-> key, hit |-> hit,
                     get_prices |-> IF hit THEN 0 ELSE 1,
                     get_books |-> IF hit \/ p.prices = "error" THEN 0 ELSE 1,
                     outcome |-> IF ~hit /\ ~fetched THEN "provider_error"
                                 ELSE IF NoPriceData(data.prices) THEN "no_data"
                                 ELSE "replay",
                     value |-> None])
    /\ UNCHANGED <<cache_dir, engineVars, laterVars, lastVars, keyVars, otherVars>>

\* prefetch_data (lines 327-364)
PrefetchData ==
    /\ Len(calls) < MaxCalls
    /\ \E req \in CacheRequests, p \in ProviderOutcomes :
         LET key == KeyOf(req)
             hit == cache_dir /\ _cache_load(cache, key) # None
             fetched == p.prices # "error" /\ p.books # "error"
             called == cache_dir /\ ~hit
         IN  /\ ~called => p = [prices |-> "error", books |-> "not_called"]
             /\ cache' = IF called /\ fetched
                         THEN _cache_save(cache, key, Payload(p))
                         ELSE cache
             /\ calls' = Append(calls,
                    [op |-> "prefetch", req |-> req, key |-> key, hit |-> hit,
                     get_prices |-> IF called THEN 1 ELSE 0,
                     get_books |-> IF called /\ p.prices # "error" THEN 1 ELSE 0,
                     outcome |-> IF ~cache_dir THEN "runtime_error"
                                 ELSE IF called /\ ~fetched THEN "provider_error"
                                 ELSE "returned",
                     value |-> IF ~cache_dir \/ (called /\ ~fetched) THEN None
                               ELSE Some(~hit)])
    /\ UNCHANGED <<cache_dir, engineVars, laterVars, lastVars, keyVars, otherVars>>

(***************************************************************************)
(* api/polymarketdata.py: PMDClient._get                                   *)
(***************************************************************************)
MaxGets == 2

\* the outcome of a call: what it returned or what it raised
Returned(status) == <<"return", status>>
Raised(exc, status) == <<exc, status>>

\* responses the server may send: a status code and the Retry-After header,
\* which is absent, a number of seconds or (as HTTP allows) not an integer
Statuses == {200, 404, 429, 500, 503}
RetryAfterHeaders == {None, Some(<<"5">>), Some(<<"1", ".", "5">>)}
Responses == [status_code : Statuses, retry_after : RetryAfterHeaders]

\* requests.Response.ok: the status is below 400
ResponseOk(resp) == resp.status_code < 400

IsDecimal(chars) ==
    /\ chars # <<>>
    /\ \A i \in 1..Len(chars) : \E d \in 1..10 : Digits[d] = chars[i]

DigitValue(c) == (CHOOSE d \in 1..10 : Digits[d] = c) - 1

RECURSIVE DecimalValue(_)
DecimalValue(chars) ==
    IF chars = <<>> THEN 0
    ELSE 10 * DecimalValue(SubSeq(chars, 1, Len(chars) - 1))
         + DigitValue(chars[Len(chars)])

\* int(resp.headers.get("Retry-After", 61)): None when int() raises ValueError
RetryAfterSeconds(resp) ==
    IF resp.retry_after = None THEN Some(61)
    ELSE IF IsDecimal(resp.retry_after[1])
         THEN Some(DecimalValue(resp.retry_after[1]))
         ELSE None

\* `resp.status_code == 429 and self._retry_on_rate_limit and attempt == 0`
ShouldRetry(resp, retry_on_rate_limit, attempt) ==
    resp.status_code = 429 /\ retry_on_rate_limit /\ attempt = 0

GetInit ==
    /\ g_retry \in BOOLEAN
    /\ g_pc = "ready"
    /\ g_attempt = 0
    /\ g_resps = <<>>
    /\ g_waits = <<>>
    /\ g_outcome = None
    /\ g_done = 0

GetIdle ==
    /\ g_retry = FALSE
    /\ g_pc = "idle"
    /\ g_attempt = 0
    /\ g_resps = <<>>
    /\ g_waits = <<>>
    /\ g_outcome = None
    /\ g_done = 0

\* a caller enters _get: the loop starts at attempt 0
GetCall ==
    /\ g_pc \in {"ready", "done"}
    /\ g_done < MaxGets
    /\ g_pc' = "loop"
    /\ g_attempt' = 0
    /\ g_resps' = <<>>
    /\ g_waits' = <<>>
    /\ g_outcome' = None
    /\ UNCHANGED <<g_retry, g_done, engineVars, cacheVars, laterVars, lastVars, keyVars,
                   strategyVars, indicatorVars>>

\* one iteration of `for attempt in range(2)`, or the statement after the loop
GetAttempt ==
    /\ g_pc = "loop"
    /\ IF g_attempt >= 2
       THEN /\ g_outcome' = Some(Raised("PMDError", 429))
            /\ g_pc' = "done"
            /\ g_done' = g_done + 1
            /\ UNCHANGED <<g_attempt, g_resps, g_waits>>
       ELSE \E resp \in Responses :
            /\ g_resps' = Append(g_resps, resp)
            /\ IF ShouldRetry(resp, g_retry, g_attempt)
               THEN IF RetryAfterSeconds(resp) = None
                    THEN /\ g_outcome' = Some(Raised("ValueError", 429))
                         /\ g_pc' = "done"
                         /\ g_done' = g_done + 1
                         /\ UNCHANGED <<g_attempt, g_waits>>
                    ELSE /\ g_waits' = Append(g_waits, RetryAfterSeconds(resp)[1])
                         /\ g_attempt' = g_attempt + 1
                         /\ UNCHANGED <<g_pc, g_outcome, g_done>>
               ELSE /\ g_outcome' =
                         IF ~ ResponseOk(resp)
                         THEN Some(Raised("PMDError", resp.status_code))
                         ELSE Some(Returned(resp.status_code))
                    /\ g_pc' = "done"
                    /\ g_done' = g_done + 1
                    /\ UNCHANGED <<g_attempt, g_waits>>
    /\ UNCHANGED <<g_retry, engineVars, cacheVars, laterVars, lastVars, keyVars,
                   strategyVars, indicatorVars>>

(***************************************************************************)
(* Exact arithmetic.  A float is modelled by the rational <<n, d>> in      *)
(* lowest terms with d > 0; rounding is not modelled.  a + b * sqrt(v) is  *)
(* <<a, b, v>> (a surd), and log is taken to base 2: it is the rational k  *)
(* on 2^k and the opaque value <<n, d, "log">> on any other n/d.           *)
(***************************************************************************)
Abs(x) == IF x < 0 THEN -x ELSE x

\* Euclid's algorithm
GCD[a \in Nat, b \in Nat] == IF b = 0 THEN a ELSE GCD[b, a % b]

Q(n, d) ==
    LET g == GCD[Abs(n), Abs(d)]
        s == IF d < 0 THEN -1 ELSE 1
    IN  <<(s * n) \div g, (s * d) \div g>>

QInt(n) == <<n, 1>>
QZero == QInt(0)
\* common factors are cancelled before the products are formed
QAdd(a, b) ==
    LET g == GCD[a[2], b[2]]
    IN  Q(a[1] * (b[2] \div g) + b[1] * (a[2] \div g), (a[2] \div g) * b[2])
QSub(a, b) == QAdd(a, <<-b[1], b[2]>>)
QMul(a, b) ==
    LET g == GCD[Abs(a[1]), b[2]]
        h == GCD[Abs(b[1]), a[2]]
    IN  IF a[1] = 0 \/ b[1] = 0 THEN <<0, 1>>
        ELSE Q((a[1] \div g) * (b[1] \div h), (a[2] \div h) * (b[2] \div g))
QDiv(a, b) == QMul(a, IF b[1] < 0 THEN <<-b[2], -b[1]>> ELSE <<b[2], b[1]>>)
QLt(a, b) ==
    LET g == GCD[a[2], b[2]]
    IN  a[1] * (b[2] \div g) < b[1] * (a[2] \div g)
QLe(a, b) ==
    LET g == GCD[a[2], b[2]]
    IN  a[1] * (b[2] \div g) <= b[1] * (a[2] \div g)
QNeg(a) == <<-a[1], a[2]>>
QAbs(a) == <<Abs(a[1]), a[2]>>

\* sum(...) of a list of integers and of a list of floats
RECURSIVE sum(_)
sum(xs) == IF xs = <<>> THEN 0 ELSE Head(xs) + sum(Tail(xs))

RECURSIVE QSum(_)
QSum(xs) == IF xs = <<>> THEN QZero ELSE QAdd(Head(xs), QSum(Tail(xs)))

QSeq(xs) == [i \in 1..Len(xs) |-> QInt(xs[i])]

\* sum((x - mean) ** 2 for x in xs)
SumSqDev(xs, mean) ==
    QSum([i \in 1..Len(xs) |-> QMul(QSub(xs[i], mean), QSub(xs[i], mean))])

Surd(a, b, v) ==
    IF b = QZero \/ v = QZero THEN <<a, QZero, QZero>> ELSE <<a, b, v>>

\* x > c and x < c for a surd x and a rational c
SurdGt(x, c) ==
    LET r == QSub(c, x[1])
        lhs == QMul(QMul(x[2], x[2]), x[3])
        rhs == QMul(r, r)
    IN  IF QLt(r, QZero) THEN QLe(QZero, x[2]) \/ QLt(lhs, rhs)
        ELSE QLt(QZero, x[2]) /\ QLt(rhs, lhs)

SurdLt(x, c) == SurdGt(<<QNeg(x[1]), QNeg(x[2]), x[3]>>, QNeg(c))

RECURSIVE IsPow2(_)
IsPow2(n) == n = 1 \/ (n > 1 /\ n % 2 = 0 /\ IsPow2(n \div 2))

RECURSIVE Log2(_)
Log2(n) == IF n <= 1 THEN 0 ELSE 1 + Log2(n \div 2)

math_log(q) ==
    IF q[2] = 1 /\ IsPow2(q[1]) THEN QInt(Log2(q[1]))
    ELSE IF q[1] = 1 /\ IsPow2(q[2]) THEN QInt(-Log2(q[2]))
    ELSE <<q[1], q[2], "log">>

\* the sign of a value returned by math_log
LogSign(x) ==
    IF Len(x) = 3 THEN (IF x[1] > x[2] THEN 1 ELSE -1)
    ELSE IF x[1] > 0 THEN 1 ELSE IF x[1] < 0 THEN -1 ELSE 0

\* prices[-k:] and prices[:k] for 0 < k and 0 <= k
Suffix(xs, k) == IF k >= Len(xs) THEN xs ELSE SubSeq(xs, Len(xs) - k + 1, Len(xs))
Take(xs, k) == IF k >= Len(xs) THEN xs ELSE SubSeq(xs, 1, k)

\* prices[-k] exists
HasFromEnd(xs, k) == 1 <= k /\ k <= Len(xs)
FromEnd(xs, k) == xs[Len(xs) - k + 1]

IndexError == <<"raise", "IndexError">>

(***************************************************************************)
(* analytics/indicators.py: price indicators                               *)
(***************************************************************************)
RsiValue_zero_loss_as_zero(avg_gain, avg_loss) ==
    IF avg_loss = QZero THEN QZero
    ELSE QSub(QInt(100), QDiv(QInt(100), QAdd(QInt(1), QDiv(avg_gain, avg_loss))))

\* `if avg_loss == 0: return 100.0`, else 100 - 100 / (1 + rs)
RsiValue(avg_gain, avg_loss) ==
    IF avg_loss = QZero THEN QInt(100)
    ELSE QSub(QInt(100), QDiv(QInt(100), QAdd(QInt(1), QDiv(avg_gain, avg_loss))))

\* the deltas prices[i] - prices[i - 1] for i in range(-period, 0)
Deltas(prices, period) ==
    [j \in 1..period |-> FromEnd(prices, period - j + 1) - FromEnd(prices, period - j + 2)]

rsi(prices, period) ==
    IF Len(prices) < period + 1 THEN None
    ELSE IF ~ HasFromEnd(prices, period + 1) THEN IndexError
    ELSE LET deltas == Deltas(prices, period)
             gains == [j \in 1..period |-> IF deltas[j] > 0 THEN deltas[j] ELSE 0]
             losses == [j \in 1..period |-> IF deltas[j] > 0 THEN 0 ELSE -deltas[j]]
             avg_gain == Q(sum(gains), period)
             avg_loss == Q(sum(losses), period)
         IN  Some(RsiValue(avg_gain, avg_loss))

BollingerBands(upper, mid, lower, z) ==
    [upper |-> upper, mid |-> mid, lower |-> lower, z |-> z]

\* sum((p - mid) ** 2 for p in window) / period
bollinger_var(window, mid, period) == QDiv(SumSqDev(window, mid), QInt(period))

bollinger(prices, period, n_std) ==
    IF Len(prices) < period THEN None
    ELSE LET window == QSeq(Suffix(prices, period))
             mid == QDiv(QSum(window), QInt(period))
             var == bollinger_var(window, mid, period)
         IN  IF var = QZero
             THEN Some(BollingerBands(Surd(mid, QZero, QZero), Surd(mid, QZero, QZero),
                                      Surd(mid, QZero, QZero), Surd(QZero, QZero, QZero)))
             ELSE IF ~ HasFromEnd(prices, 1) THEN IndexError
             ELSE Some(BollingerBands(
                      Surd(mid, QInt(n_std), var),
                      Surd(mid, QZero, QZero),
                      Surd(mid, QInt(-n_std), var),
                      Surd(QZero, QDiv(QSub(QInt(FromEnd(prices, 1)), mid), var), var)))

MACDResult(m, sig, hist) == [macd |-> m, signal |-> sig, histogram |-> hist]

RECURSIVE _ema_from(_, _, _)
_ema_from(ema, rest, k) ==
    IF rest = <<>> THEN ema
    ELSE _ema_from(QAdd(QMul(Head(rest), k), QMul(ema, QSub(QInt(1), k))),
                   Tail(rest), k)

_ema(values, period) == _ema_from(Head(values), Tail(values), Q(2, period + 1))

macd(prices, fast, slow, signal_period) ==
    LET min_len == slow + signal_period
    IN  IF Len(prices) < min_len THEN None
        ELSE LET macd_series ==
                     [j \in 1..(Len(prices) - slow + 1) |->
                         LET upto == QSeq(SubSeq(prices, 1, slow - 1 + j))
                         IN  QSub(_ema(upto, fast), _ema(upto, slow))]
             IN  IF Len(macd_series) < signal_period THEN None
                 ELSE LET sig == _ema(macd_series, signal_period)
                          m == macd_series[Len(macd_series)]
                      IN  Some(MACDResult(m, sig, QSub(m, sig)))

momentum_guard_off_by_one(prices, period) ==
    IF Len(prices) < period THEN None
    ELSE IF ~ HasFromEnd(prices, period + 1) THEN IndexError
    ELSE LET base == FromEnd(prices, period + 1)
         IN  IF base = 0 THEN None
             ELSE Some(Q(FromEnd(prices, 1) - base, base))

momentum(prices, period) ==
    IF Len(prices) < period + 1 THEN None
    ELSE IF ~ HasFromEnd(prices, period + 1) THEN IndexError
    ELSE LET base == FromEnd(prices, period + 1)
         IN  IF base = 0 THEN None
             ELSE Some(Q(FromEnd(prices, 1) - base, base))

\* the log-returns of the bars whose two prices are both positive
RECURSIVE log_returns(_, _)
log_returns(window, i) ==
    IF i > Len(window) THEN <<>>
    ELSE (IF window[i - 1] > 0 /\ window[i] > 0
          THEN <<math_log(Q(window[i], window[i - 1]))>>
          ELSE <<>>) \o log_returns(window, i + 1)

realized_var_population(log_ret, mean) ==
    QDiv(SumSqDev(log_ret, mean), QInt(Len(log_ret)))

\* sum((r - mean) ** 2 for r in log_ret) / (len(log_ret) - 1)
realized_var(log_ret, mean) ==
    QDiv(SumSqDev(log_ret, mean), QInt(Len(log_ret) - 1))

realized_vol(prices, period) ==
    IF Len(prices) < period + 1 THEN None
    ELSE LET window == Suffix(prices, period + 1)
             log_ret == log_returns(window, 2)
         IN  IF Len(log_ret) < 2 THEN None
             ELSE LET mean == QDiv(QSum(log_ret), QInt(Len(log_ret)))
                  IN  Some(Surd(QZero, QInt(1), realized_var(log_ret, mean)))

(***************************************************************************)
(* analytics/indicators.py: order book indicators                          *)
(***************************************************************************)
\* sum(float(l[0]) * float(l[1]) for l in levels)
RECURSIVE Notional(_)
Notional(levels) ==
    IF levels = <<>> THEN 0
    ELSE Head(levels)[1] * Head(levels)[2] + Notional(Tail(levels))

book_imbalance_neutral_when_a_side_is_empty(book) ==
    LET bid_vol == Notional(book.bids)
        ask_vol == Notional(book.asks)
        total == bid_vol + ask_vol
    IN  IF book.bids # <<>> /\ book.asks # <<>> /\ total > 0
        THEN Q(bid_vol, total) ELSE Q(1, 2)

book_imbalance(book) ==
    LET bid_vol == Notional(book.bids)
        ask_vol == Notional(book.asks)
        total == bid_vol + ask_vol
    IN  IF total > 0 THEN Q(bid_vol, total) ELSE Q(1, 2)

\* sorted(levels, key=...): a stable sort, by falling or by rising price
RECURSIVE InsertLevel(_, _, _)
InsertLevel(sorted, level, falling) ==
    IF sorted = <<>> THEN <<level>>
    ELSE IF (IF falling THEN level[1] > Head(sorted)[1] ELSE level[1] < Head(sorted)[1])
         THEN <<level>> \o sorted
         ELSE <<Head(sorted)>> \o InsertLevel(Tail(sorted), level, falling)

RECURSIVE SortLevels(_, _)
SortLevels(levels, falling) ==
    IF levels = <<>> THEN <<>>
    ELSE InsertLevel(SortLevels(SubSeq(levels, 1, Len(levels) - 1), falling),
                     levels[Len(levels)], falling)

book_pressure(book, depth) ==
    LET bids == Take(SortLevels(book.bids, TRUE), depth)
        asks == Take(SortLevels(book.asks, FALSE), depth)
        bid_p == Notional(bids)
        ask_p == Notional(asks)
    IN  IF bid_p <= 0 \/ ask_p <= 0 THEN QZero
        ELSE math_log(Q(bid_p, ask_p))

\* spec-modelled: the net price change over `lookback` bars, absent when the
\* history is shorter than lookback + 1
trend_slope(prices, lookback) ==
    IF Len(prices) < lookback + 1 THEN None
    ELSE Some(FromEnd(prices, 1) - FromEnd(prices, lookback + 1))

(***************************************************************************)
(* The indicators as functions of their inputs                             *)
(***************************************************************************)
MaxLen == 4
MaxPeriod == 3
MaxLevels == 2

\* prices in ticks; the positive ones are powers of two, so that the
\* log-returns of realized_vol are exact
IndPrices == {0, 1, 2, 4}
SignalPeriods == {1, 2}
NStds == {2}

RECURSIVE SeqsUpTo(_, _)
SeqsUpTo(S, n) ==
    IF n = 0 THEN {<<>>}
    ELSE LET shorter == SeqsUpTo(S, n - 1)
         IN  shorter \cup {Append(s, x) : s \in {t \in shorter : Len(t) = n - 1}, x \in S}

IndInit ==
    /\ ind_in \in [prices : SeqsUpTo(IndPrices, MaxLen), period : 1..MaxPeriod,
                   signal_period : SignalPeriods, n_std : NStds]
    /\ ind_out = None

IndIdle == ind_in = None /\ ind_out = None

\* rsi, bollinger, macd (fast 1, slow `period`), momentum and realized_vol
\* applied to the same price list
ComputeIndicators ==
    /\ ind_in # None
    /\ ind_out = None
    /\ ind_out' = Some([rsi |-> rsi(ind_in.prices, ind_in.period),
                        bollinger |-> bollinger(ind_in.prices, ind_in.period, ind_in.n_std),
                        macd |-> macd(ind_in.prices, 1, ind_in.period, ind_in.signal_period),
                        momentum |-> momentum(ind_in.prices, ind_in.period),
                        realized_vol |-> realized_vol(ind_in.prices, ind_in.period)])
    /\ UNCHANGED <<ind_in, bk_in, bk_out, engineVars, cacheVars, laterVars, lastVars, keyVars,
                   apiVars, strategyVars>>

\* [price, size] levels in ticks and shares
BookLevels == {<<48, 10>>, <<52, 5>>, <<0, 10>>}
Depths == {0, 1, 5}

BookInit ==
    /\ bk_in \in [book : [bids : SeqsUpTo(BookLevels, MaxLevels),
                          asks : SeqsUpTo(BookLevels, MaxLevels)],
                  depth : Depths]
    /\ bk_out = None

BookIdle == bk_in = None /\ bk_out = None

ComputeBookIndicators ==
    /\ bk_in # None
    /\ bk_out = None
    /\ bk_out' = Some([book_imbalance |-> book_imbalance(bk_in.book),
                       book_pressure |-> book_pressure(bk_in.book, bk_in.depth)])
    /\ UNCHANGED <<bk_in, ind_in, ind_out, engineVars, cacheVars, laterVars, lastVars, keyVars,
                   apiVars, strategyVars>>

(***************************************************************************)
(* analytics/strategies/longshot_bias.py                                   *)
(***************************************************************************)
MaxLsCalls == 3

LsThresholds == {35, 50, 65}
LsBands == {[min_price |-> 4, max_price |-> 96]}
LsPrices == {2, 20, 50, 80, 98}

ThresholdsRejected_only_when_above(longshot_threshold, favorite_threshold) ==
    longshot_threshold > favorite_threshold

\* `if longshot_threshold >= favorite_threshold: raise ValueError`
ThresholdsRejected(longshot_threshold, favorite_threshold) ==
    longshot_threshold >= favorite_threshold

\* `price < self.min_price or price > self.max_price`
OutOfBand(self, price) == price < self.min_price \/ price > self.max_price

ZoneAfterSkip_kept(prev_zone) == prev_zone

\* `self._prev_zone = None` on an out-of-band price
ZoneAfterSkip(prev_zone) == None

ZoneOf(self, price) ==
    IF price <= self.longshot_threshold THEN "longshot"
    ELSE IF price >= self.favorite_threshold THEN "favorite"
    ELSE "neutral"

NoTransition_neutral_only(zone, prev_zone) == zone = "neutral"

\* `if zone == prev_zone or zone == "neutral": return None`
NoTransition(zone, prev_zone) == Some(zone) = prev_zone \/ zone = "neutral"

\* the signal on_step returns and the zone it leaves in self._prev_zone
LongshotBias_on_step(self, price) ==
    IF OutOfBand(self, price)
    THEN [signal |-> None, _prev_zone |-> ZoneAfterSkip(self._prev_zone)]
    ELSE LET zone == ZoneOf(self, price)
             prev_zone == self._prev_zone
         IN  [signal |-> IF NoTransition(zone, prev_zone) THEN None
                         ELSE IF zone = "longshot" THEN Some(SELL) ELSE Some(BUY),
              _prev_zone |-> Some(zone)]

LsInit ==
    /\ ls_pc = "new"
    /\ ls_args \in [longshot_threshold : LsThresholds,
                    favorite_threshold : LsThresholds, band : LsBands]
    /\ ls_self = None
    /\ ls_calls = <<>>

LsIdle == ls_pc = "idle" /\ ls_args = None /\ ls_self = None /\ ls_calls = <<>>

\* LongshotBiasStrategy.__init__
LsConstruct ==
    /\ ls_pc = "new"
    /\ IF ThresholdsRejected(ls_args.longshot_threshold, ls_args.favorite_threshold)
       THEN ls_pc' = "ValueError" /\ ls_self' = None
       ELSE /\ ls_pc' = "live"
            /\ ls_self' = Some([longshot_threshold |-> ls_args.longshot_threshold,
                                favorite_threshold |-> ls_args.favorite_threshold,
                                min_price |-> ls_args.band.min_price,
                                max_price |-> ls_args.band.max_price,
                                _prev_zone |-> None])
    /\ UNCHANGED <<ls_args, ls_calls, mmVars, rsVars, engineVars, cacheVars, laterVars, lastVars,
                   keyVars, apiVars, indicatorVars>>

LsOnStep ==
    /\ ls_pc = "live"
    /\ Len(ls_calls) < MaxLsCalls
    /\ \E price \in LsPrices :
        LET step == LongshotBias_on_step(ls_self[1], price)
        IN  /\ ls_self' = Some([ls_self[1] EXCEPT !._prev_zone = step._prev_zone])
            /\ ls_calls' = Append(ls_calls, [price |-> price, signal |-> step.signal])
    /\ UNCHANGED <<ls_pc, ls_args, mmVars, rsVars, engineVars, cacheVars, laterVars, lastVars,
                   keyVars, apiVars, indicatorVars>>

(***************************************************************************)
(* analytics/strategies/macd_momentum.py, driven by BacktestEngine.run     *)
(***************************************************************************)
MaxMacdBars == 7

MacdPrices == {40, 50, 98}
\* an empty book and a book with more bid than ask notional
StrategyBooks == {[bids |-> <<>>, asks |-> <<>>],
                  [bids |-> <<<<48, 10>>, <<47, 5>>>>, asks |-> <<<<52, 10>>>>]}
\* the optional filters, one at a time; the book of the run has more bid than
\* ask notional where book pressure is read and is empty elsewhere
MacdFilters == {[trend_filter |-> FALSE, momentum_confirm |-> FALSE, book_pressure_confirm |-> FALSE],
                [trend_filter |-> TRUE, momentum_confirm |-> FALSE, book_pressure_confirm |-> FALSE],
                [trend_filter |-> FALSE, momentum_confirm |-> TRUE, book_pressure_confirm |-> FALSE],
                [trend_filter |-> FALSE, momentum_confirm |-> FALSE, book_pressure_confirm |-> TRUE]}

MacdBook(filters) ==
    IF filters.book_pressure_confirm
    THEN [bids |-> <<<<48, 10>>, <<47, 5>>>>, asks |-> <<<<52, 10>>>>]
    ELSE [bids |-> <<>>, asks |-> <<>>]

\* `prev <= 0 < hist` and `prev >= 0 > hist`
BullishCross(prev, hist) == QLe(prev, QZero) /\ QLt(QZero, hist)
BearishCross(prev, hist) == QLe(QZero, prev) /\ QLt(hist, QZero)

\* on_step from the crossing test on: the filters and the signal
MacdSignal(self, prev, hist, slope, mom, bp) ==
    IF prev = None THEN None
    ELSE IF ~ BullishCross(prev[1], hist) /\ ~ BearishCross(prev[1], hist) THEN None
    ELSE IF QLt(QAbs(hist), self.min_histogram) THEN None
    ELSE IF /\ self.trend_filter
            /\ slope # None
            /\ \/ BearishCross(prev[1], hist) /\ slope[1] >= self.trend_threshold
               \/ BullishCross(prev[1], hist) /\ slope[1] <= -self.trend_threshold
         THEN None
    ELSE IF /\ self.momentum_confirm
            /\ \/ mom = None
               \/ BullishCross(prev[1], hist) /\ QLe(mom[1], QZero)
               \/ BearishCross(prev[1], hist) /\ QLe(QZero, mom[1])
         THEN None
    ELSE IF /\ self.book_pressure_confirm
            /\ \/ BullishCross(prev[1], hist) /\ LogSign(bp) <= 0
               \/ BearishCross(prev[1], hist) /\ LogSign(bp) >= 0
         THEN None
    ELSE IF BullishCross(prev[1], hist) THEN Some(BUY) ELSE Some(SELL)

MACDMomentum_on_step(self, prev_histogram, price, book, price_history) ==
    IF price < self.min_price \/ price > self.max_price
    THEN [signal |-> None, _prev_histogram |-> None]
    ELSE LET mc == macd(price_history, self.macd_fast, self.macd_slow,
                        self.macd_signal_period)
         IN  IF mc = None
             THEN [signal |-> None, _prev_histogram |-> prev_histogram]
             ELSE [signal |-> MacdSignal(self, prev_histogram, mc[1].histogram,
                                         trend_slope(price_history, self.trend_lookback),
                                         momentum(price_history, self.momentum_period),
                                         book_pressure(book, self.book_depth)),
                   _prev_histogram |-> Some(mc[1].histogram)]

MacdInit ==
    /\ mm_cfg \in [macd_fast : {1}, macd_slow : {2}, macd_signal_period : {2},
                   min_histogram : {QZero}, filters : MacdFilters,
                   momentum_period : {2}, book_depth : {5},
                   min_price : {3}, max_price : {97},
                   trend_lookback : {2}, trend_threshold : {5},
                   history_window : {4}, stop_loss : StopLosses,
                   take_profit : TakeProfits, hold_periods : HoldPeriods]
    /\ mm_self = [_prev_histogram |-> None]
    /\ mm_window = <<>>
    /\ mm_open = None
    /\ mm_log = <<>>

MacdIdle ==
    /\ mm_cfg = None
    /\ mm_self = None
    /\ mm_window = <<>>
    /\ mm_open = None
    /\ mm_log = <<>>

\* the strategy's parameters as on_step reads them from self
MacdSelf(cfg) ==
    [macd_fast |-> cfg.macd_fast, macd_slow |-> cfg.macd_slow,
     macd_signal_period |-> cfg.macd_signal_period,
     min_histogram |-> cfg.min_histogram,
     trend_filter |-> cfg.filters.trend_filter,
     momentum_confirm |-> cfg.filters.momentum_confirm,
     book_pressure_confirm |-> cfg.filters.book_pressure_confirm,
     momentum_period |-> cfg.momentum_period, book_depth |-> cfg.book_depth,
     min_price |-> cfg.min_price, max_price |-> cfg.max_price,
     trend_lookback |-> cfg.trend_lookback,
     trend_threshold |-> cfg.trend_threshold]

\* one iteration of the simulation loop of BacktestEngine.run with a
\* MACDMomentumStrategy; the Trade records of the run are those of Spec
MacdRunBar ==
    /\ mm_cfg # None
    /\ Len(mm_log) < MaxMacdBars
    /\ \E price \in MacdPrices :
        LET window == AppendWindow(mm_window, price, mm_cfg.history_window)
            exit_reason ==
                IF mm_open = None THEN None
                ELSE _check_exit(mm_open[1], price, mm_cfg.stop_loss,
                                 mm_cfg.take_profit, mm_cfg.hold_periods)
            kept == IF exit_reason # None THEN None ELSE mm_open
            called == CanEnter(kept, window, mm_cfg.history_window)
            step == MACDMomentum_on_step(MacdSelf(mm_cfg), mm_self._prev_histogram,
                                         price, MacdBook(mm_cfg.filters), window)
            signal == IF called THEN step.signal ELSE None
            entered ==
                IF signal # None
                THEN Some(_OpenPosition(
                         TradeSignal(Len(mm_log) + 1, signal[1], price),
                         _entry_exec_price(signal[1], MacdBook(mm_cfg.filters), price),
                         price, 0))
                ELSE kept
            mc == macd(window, mm_cfg.macd_fast, mm_cfg.macd_slow,
                       mm_cfg.macd_signal_period)
        IN  /\ mm_window' = window
            /\ mm_self' = IF called THEN [_prev_histogram |-> step._prev_histogram]
                          ELSE mm_self
            /\ mm_open' = IF entered = None THEN None
                          ELSE Some([entered[1] EXCEPT !.bars_held = @ + 1])
            /\ mm_log' = Append(mm_log,
                                [price |-> price,
                                 histogram |-> IF mc = None THEN None
                                               ELSE Some(mc[1].histogram),
                                 called |-> called,
                                 signal |-> signal])
    /\ UNCHANGED <<mm_cfg, lsVars, rsVars, engineVars, cacheVars, laterVars, lastVars, keyVars,
                   apiVars, indicatorVars>>

(***************************************************************************)
(* analytics/strategies/rsi_mean_reversion.py                              *)
(***************************************************************************)
MaxHistory == 3

RsiPrices == {2, 48, 49, 51, 52, 98}

RsiSkipsPrice_never(self, price) == FALSE

\* `if price < self.min_price or price > self.max_price: return None`
RsiSkipsPrice(self, price) == price < self.min_price \/ price > self.max_price

RSIMeanReversion_on_step(self, price, book, price_history) ==
    IF RsiSkipsPrice(self, price) THEN None
    ELSE LET rsi_val == rsi(price_history, self.rsi_period)
         IN  IF rsi_val = None THEN None
             ELSE LET is_oversold == QLt(rsi_val[1], QInt(self.oversold_threshold))
                      is_overbought == QLt(QInt(self.overbought_threshold), rsi_val[1])
                      slope == trend_slope(price_history, self.trend_lookback)
                      bb == bollinger(price_history, self.bb_period, 2)
                      bp == book_pressure(book, self.book_depth)
                  IN  IF ~ is_oversold /\ ~ is_overbought THEN None
                      ELSE IF /\ self.trend_filter
                              /\ slope # None
                              /\ \/ is_overbought /\ slope[1] >= self.trend_threshold
                                 \/ is_oversold /\ slope[1] <= -self.trend_threshold
                           THEN None
                      ELSE IF /\ self.bb_confirm
                              /\ \/ bb = None
                                 \/ is_oversold /\ SurdGt(bb[1].z, QInt(-self.bb_z_min))
                                 \/ is_overbought /\ SurdLt(bb[1].z, QInt(self.bb_z_min))
                           THEN None
                      ELSE IF /\ self.book_pressure_confirm
                              /\ \/ is_oversold /\ LogSign(bp) <= 0
                                 \/ is_overbought /\ LogSign(bp) >= 0
                           THEN None
                      ELSE IF is_oversold THEN Some(BUY) ELSE Some(SELL)

RsiInit ==
    /\ rs_in \in [self : [rsi_period : {2}, oversold_threshold : {30},
                          overbought_threshold : {70},
                          bb_confirm : BOOLEAN, bb_period : {2}, bb_z_min : {1},
                          book_pressure_confirm : BOOLEAN, book_depth : {5},
                          min_price : {3}, max_price : {97},
                          trend_filter : BOOLEAN, trend_lookback : {2, 3},
                          trend_threshold : {3}],
                  price_history : SeqsUpTo(RsiPrices, MaxHistory) \ {<<>>},
                  book : StrategyBooks]
    /\ rs_out = None

RsiIdle == rs_in = None /\ rs_out = None

\* on_step on the last bar of the history the engine passes
RsiOnStep ==
    /\ rs_in # None
    /\ rs_out = None
    /\ rs_out' = Some(RSIMeanReversion_on_step(
                          rs_in.self,
                          rs_in.price_history[Len(rs_in.price_history)],
                          rs_in.book, rs_in.price_history))
    /\ UNCHANGED <<rs_in, lsVars, mmVars, engineVars, cacheVars, laterVars, lastVars, keyVars,
                   apiVars, indicatorVars>>

(***************************************************************************)
(* analytics/indicators.py: book_spread and the composite feature vector   *)
(***************************************************************************)
RECURSIVE MaxPrice(_)
MaxPrice(levels) ==
    IF Len(levels) = 1 THEN levels[1][1]
    ELSE LET m == MaxPrice(Tail(levels))
         IN  IF levels[1][1] >= m THEN levels[1][1] ELSE m

RECURSIVE MinPrice(_)
MinPrice(levels) ==
    IF Len(levels) = 1 THEN levels[1][1]
    ELSE LET m == MinPrice(Tail(levels))
         IN  IF levels[1][1] <= m THEN levels[1][1] ELSE m

\* best ask - best bid, None if either side is empty
book_spread(book) ==
    IF book.bids = <<>> \/ book.asks = <<>> THEN None
    ELSE Some(QInt(MinPrice(book.asks) - MaxPrice(book.bids)))

FEATURE_NAMES == <<"rsi", "bb_z", "macd_hist", "momentum", "realized_vol",
                   "book_imbalance", "book_pressure", "book_spread">>

\* the list aligned with FEATURE_NAMES; an entry is None or Some(value)
compute_features(price_history, book, p) ==
    LET bb == bollinger(price_history, p.bb_period, 2)
        mc == macd(price_history, p.macd_fast, p.macd_slow, p.macd_signal)
    IN  << rsi(price_history, p.rsi_period),
           IF bb # None THEN Some(bb[1].z) ELSE None,
           IF mc # None THEN Some(mc[1].histogram) ELSE None,
           momentum(price_history, p.mom_period),
           realized_vol(price_history, p.vol_period),
           Some(book_imbalance(book)),
           Some(book_pressure(book, p.book_depth)),
           book_spread(book) >>

(***************************************************************************)
(* analytics/strategies/optimal_entry.py                                   *)
(*                                                                         *)
(* A standard deviation is the surd sqrt(var); float("inf") is Inf.  The   *)
(* series of the model have no book snapshots and hyper-parameters under   *)
(* which every feature that is present is a rational.                      *)
(***************************************************************************)
MaxScanLen == 5

ScanPrices == {40, 44, 50}
MinGains == {4}
ForwardWindows == {1, 2}
IndicatorWindows == {1, 2}
ScanHyperParams ==
    [rsi_period |-> 1, bb_period |-> 9, macd_fast |-> 1, macd_slow |-> 2,
     macd_signal |-> 1, mom_period |-> 1, vol_period |-> 9, book_depth |-> 5]

Inf == <<"inf">>
ZeroStd == Surd(QZero, QZero, QZero)

EntryProfile(signal, mean, std, n_samples) ==
    [signal |-> signal, feature_names |-> FEATURE_NAMES, mean |-> mean,
     std |-> std, n_samples |-> n_samples]

\* the indices of zip(features, self.mean, self.std) that are not skipped
DistanceTerms(self, features) ==
    SelectSeq([j \in 1..Len(features) |-> j],
              LAMBDA j : features[j] # None /\ self.std[j] # ZeroStd)

\* `math.sqrt(total / count) if count > 0 else float("inf")`
DistanceResult_zero_when_empty(total, count) ==
    IF count > 0 THEN Surd(QZero, QInt(1), QDiv(total, QInt(count)))
    ELSE ZeroStd

DistanceResult(total, count) ==
    IF count > 0 THEN Surd(QZero, QInt(1), QDiv(total, QInt(count)))
    ELSE Inf

\* EntryProfile.distance: ((x - mu) / sigma) ** 2 is (x - mu)^2 / var
EntryProfile_distance(self, features) ==
    LET idx == DistanceTerms(self, features)
        terms == [k \in 1..Len(idx) |->
                    LET x == features[idx[k]][1]
                        mu == self.mean[idx[k]]
                        var == self.std[idx[k]][3]
                    IN  QDiv(QMul(QSub(x, mu), QSub(x, mu)), var)]
    IN  DistanceResult(QSum(terms), Len(idx))

\* `any(p >= entry_price + min_gain ...)` or `any(p <= entry_price - min_gain ...)`
Triggered(signal, entry_price, future_prices, min_gain) ==
    IF signal = BUY
    THEN \E k \in 1..Len(future_prices) : future_prices[k] >= entry_price + min_gain
    ELSE \E k \in 1..Len(future_prices) : future_prices[k] <= entry_price - min_gain

\* prices[a:b] for 0 <= a, in 0-based positions
Slice(xs, a, b) ==
    LET hi == IF b > Len(xs) THEN Len(xs) ELSE b
    IN  IF a >= hi THEN <<>> ELSE SubSeq(xs, a + 1, hi)

ScanRange_whole_series(n, indicator_window, forward_window) ==
    SelectSeq([j \in 1..n |-> j - 1], LAMBDA i : TRUE)

\* range(indicator_window, len(prices) - forward_window), 0-based
ScanRange(n, indicator_window, forward_window) ==
    SelectSeq([j \in 1..n |-> j - 1],
              LAMBDA i : indicator_window <= i /\ i < n - forward_window)

\* the 0-based bars of the loop that are not skipped by `continue`
FlaggedBars(prices, signal, min_gain, forward_window, indicator_window) ==
    SelectSeq(ScanRange(Len(prices), indicator_window, forward_window),
              LAMBDA i : Triggered(signal, prices[i + 1],
                                   Slice(prices, i + 1, i + 1 + forward_window),
                                   min_gain))

\* the mean and the std of one column of the feature matrix
ColumnStats(feature_matrix, col) ==
    LET present == SelectSeq(feature_matrix, LAMBDA row : row[col] # None)
        vals == [k \in 1..Len(present) |-> present[k][col][1]]
    IN  IF vals = <<>> THEN [mean |-> QZero, std |-> ZeroStd]
        ELSE IF Len(vals) < 2 THEN [mean |-> vals[1], std |-> ZeroStd]
        ELSE LET mu == QDiv(QSum(vals), QInt(Len(vals)))
                 var == QDiv(SumSqDev(vals, mu), QInt(Len(vals) - 1))
             IN  [mean |-> mu, std |-> Surd(QZero, QInt(1), var)]

NoBook == [bids |-> <<>>, asks |-> <<>>]

\* the value the call returns or the error it raises; `bars` and `rows` are
\* the flagged bars and their feature vectors
scan_optimal_entries(prices, signal, min_gain, forward_window, indicator_window) ==
    IF signal \notin {BUY, SELL} THEN [kind |-> "ValueError", bars |-> <<>>, rows |-> <<>>]
    ELSE LET bars == FlaggedBars(prices, signal, min_gain, forward_window,
                                 indicator_window)
             feature_matrix ==
                 [k \in 1..Len(bars) |->
                     compute_features(
                         Slice(prices,
                               IF bars[k] - indicator_window > 0
                               THEN bars[k] - indicator_window ELSE 0,
                               bars[k] + 1),
                         NoBook, ScanHyperParams)]
             stats == [col \in 1..Len(FEATURE_NAMES) |->
                          ColumnStats(feature_matrix, col)]
         IN  IF feature_matrix = <<>>
             THEN [kind |-> "ValueError", bars |-> bars, rows |-> feature_matrix]
             ELSE [kind |-> "profile", bars |-> bars, rows |-> feature_matrix,
                   profile |-> EntryProfile(
                       signal,
                       [col \in 1..Len(FEATURE_NAMES) |-> stats[col].mean],
                       [col \in 1..Len(FEATURE_NAMES) |-> stats[col].std],
                       Len(feature_matrix))]

ScanInit ==
    /\ sc_in \in [prices : SeqsUpTo(ScanPrices, MaxScanLen),
                  signal : {BUY, SELL, HOLD}, min_gain : MinGains,
                  forward_window : ForwardWindows,
                  indicator_window : IndicatorWindows]
    /\ sc_out = None
    /\ sc_dist = None

ScanIdle == sc_in = None /\ sc_out = None /\ sc_dist = None

ScanOptimalEntries ==
    /\ sc_in # None
    /\ sc_out = None
    /\ sc_out' = Some(scan_optimal_entries(sc_in.prices, sc_in.signal, sc_in.min_gain,
                                           sc_in.forward_window, sc_in.indicator_window))
    /\ UNCHANGED <<sc_in, sc_dist, coreVars, lastVars, otherVars, statVars, twinVars,
                   execVars, windowVars>>

\* profile.distance(features) on the feature vector of a flagged bar
ProfileDistance ==
    /\ sc_out # None
    /\ sc_out[1].kind = "profile"
    /\ sc_dist = None
    /\ \E k \in 1..Len(sc_out[1].rows) :
         sc_dist' = Some([row |-> k,
                          distance |-> EntryProfile_distance(sc_out[1].profile,
                                                             sc_out[1].rows[k])])
    /\ UNCHANGED <<sc_in, sc_out, coreVars, lastVars, otherVars, statVars, twinVars,
                   execVars, windowVars>>

(***************************************************************************)
(* analytics/stats.py: wilson_ci                                           *)
(***************************************************************************)
\* wins and n range over 0..MaxTrades
MaxTrades == 7

\* z: float = 1.96
ZValues == {Q(49, 25)}

ConfidenceInterval(lower, upper, n) == [lower |-> lower, upper |-> upper, n |-> n]

\* max(0.0, x) and min(1.0, x) of a surd x
ClampLower(x) == IF SurdGt(x, QZero) THEN x ELSE Surd(QZero, QZero, QZero)
ClampUpper(x) == IF SurdLt(x, QInt(1)) THEN x ELSE Surd(QInt(1), QZero, QZero)

wilson_margin_negated(z, denom) == QNeg(QDiv(z, denom))

\* margin = z * math.sqrt(v) / denom is wilson_margin(z, denom) * sqrt(v)
wilson_margin(z, denom) == QDiv(z, denom)

\* <<"return", interval>>, or <<"raise", "ValueError">> from math.sqrt
wilson_ci(wins, n, z) ==
    IF n = 0 THEN <<"return", ConfidenceInterval(Surd(QZero, QZero, QZero),
                                                 Surd(QInt(1), QZero, QZero), 0)>>
    ELSE LET p == Q(wins, n)
             zz == QMul(z, z)
             denom == QAdd(QInt(1), QDiv(zz, QInt(n)))
             centre == QDiv(QAdd(p, QDiv(zz, QInt(2 * n))), denom)
             v == QAdd(QDiv(QMul(p, QSub(QInt(1), p)), QInt(n)),
                       QDiv(zz, QInt(4 * n * n)))
             m == wilson_margin(z, denom)
         IN  IF QLt(v, QZero) THEN <<"raise", "ValueError">>
             ELSE <<"return",
                    ConfidenceInterval(ClampLower(Surd(centre, QNeg(m), v)),
                                       ClampUpper(Surd(centre, m, v)), n)>>

WilsonInit ==
    /\ wl_in \in {[wins |-> w, n |-> n, z |-> z] :
                     w \in 0..MaxTrades, n \in 0..MaxTrades, z \in ZValues}
    /\ wl_out = None

WilsonIdle == wl_in = None /\ wl_out = None

ComputeWilson ==
    /\ wl_in # None
    /\ wl_out = None
    /\ wl_out' = Some(wilson_ci(wl_in.wins, wl_in.n, wl_in.z))
    /\ UNCHANGED <<wl_in, coreVars, lastVars, otherVars, scanVars, twinVars, execVars,
                   windowVars>>

(***************************************************************************)
(* analytics/engine.py: two runs of BacktestEngine.run over the same data, *)
(* each with its own MACDMomentumStrategy                                  *)
(***************************************************************************)
MaxTwinBars == 6

TwinPrices == {40, 50}
TwinConfigs ==
    [macd_fast : {1}, macd_slow : {2}, macd_signal_period : {2},
     min_histogram : {QZero},
     filters : {[trend_filter |-> FALSE, momentum_confirm |-> FALSE,
                 book_pressure_confirm |-> FALSE]},
     momentum_period : {2}, book_depth : {5}, min_price : {3}, max_price : {97},
     trend_lookback : {2}, trend_threshold : {5}, history_window : {4},
     stop_loss : StopLosses, take_profit : TakeProfits,
     hold_periods : HoldPeriods, fee_rate : {0}]

FreshStrategy_reused(used) ==
    IF used = None THEN [_prev_histogram |-> None] ELSE used

\* MACDMomentumStrategy(...): a new object starts with _prev_histogram = None;
\* `used` is the object of an earlier run, which the new one does not read
FreshStrategy(used) == [_prev_histogram |-> None]

\* the locals of run before the first bar
RunStart(strategy) ==
    [self |-> strategy, window |-> <<>>, open |-> None, trades |-> <<>>]

\* `if open_trade is not None: open_trade.bars_held += 1`
Held(st) ==
    [st EXCEPT !.open = IF st.open = None THEN None
                        ELSE Some([st.open[1] EXCEPT !.bars_held = @ + 1])]

\* the signal returned by on_step opens a position
ApplyStep(st, step, ts, price, book) ==
    [st EXCEPT !.self = [_prev_histogram |-> step._prev_histogram],
               !.open = IF step.signal # None
                        THEN Some(_OpenPosition(
                                 TradeSignal(ts, step.signal[1], price),
                                 _entry_exec_price(step.signal[1], book, price),
                                 price, 0))
                        ELSE None]

\* lines 279-305 with the strategy's on_step
EnterMacd(cfg, st, ts, price, book) ==
    IF CanEnter(st.open, st.window, cfg.history_window)
    THEN Held(ApplyStep(st, MACDMomentum_on_step(MacdSelf(cfg), st.self._prev_histogram,
                                                 price, book, st.window),
                        ts, price, book))
    ELSE Held(st)

\* lines 254-277: an exit appends a Trade and empties the slot
ExitMacd(cfg, st, reason, ts, price, book) ==
    IF reason = None THEN st
    ELSE [st EXCEPT !.open = None,
                    !.trades = AppendTrade(st.trades,
                        Trade(st.open[1].signal, st.open[1].entry_price,
                              _exit_exec_price(st.open[1].signal.signal, book, price),
                              ts, reason[1], cfg.fee_rate))]

\* one iteration of the simulation loop
RunBarMacd(cfg, st, ts, price) ==
    EnterMacd(cfg,
              ExitMacd(cfg,
                       [st EXCEPT !.window = AppendWindow(st.window, price,
                                                          cfg.history_window)],
                       IF st.open = None THEN None
                       ELSE _check_exit(st.open[1], price, cfg.stop_loss,
                                        cfg.take_profit, cfg.hold_periods),
                       ts, price, MacdBook(cfg.filters)),
              ts, price, MacdBook(cfg.filters))

\* lines 307-324: result.trades when run returns
RunResult(cfg, st, prices) ==
    IF NeedsFinalClose(st.open, Len(prices))
    THEN AppendTrade(st.trades,
             Trade(st.open[1].signal, st.open[1].entry_price,
                   _exit_exec_price(st.open[1].signal.signal, MacdBook(cfg.filters),
                                    prices[Len(prices)]),
                   Len(prices), EndOfDataReason, cfg.fee_rate))
    ELSE st.trades

TwinInit ==
    /\ tw_cfg \in TwinConfigs
    /\ tw_prices \in SeqsUpTo(TwinPrices, MaxTwinBars) \ {<<>>}
    /\ tw_run = 1
    /\ tw_pos = 0
    /\ tw_st = RunStart(FreshStrategy(None))
    /\ tw_first = None
    /\ tw_second = None

TwinIdle ==
    /\ tw_cfg = None
    /\ tw_prices = <<>>
    /\ tw_run = 0
    /\ tw_pos = 0
    /\ tw_st = None
    /\ tw_first = None
    /\ tw_second = None

\* the loop of the current run processes its next bar
TwinRunBar ==
    /\ tw_run \in {1, 2}
    /\ tw_pos < Len(tw_prices)
    /\ tw_st' = RunBarMacd(tw_cfg, tw_st, tw_pos + 1, tw_prices[tw_pos + 1])
    /\ tw_pos' = tw_pos + 1
    /\ UNCHANGED <<tw_cfg, tw_prices, tw_run, tw_first, tw_second, coreVars, lastVars,
                   otherVars, scanVars, statVars, execVars, windowVars>>

\* the current run returns; the second run starts with a strategy of its own
TwinReturn ==
    /\ tw_run \in {1, 2}
    /\ tw_pos = Len(tw_prices)
    /\ IF tw_run = 1
       THEN /\ tw_first' = Some(RunResult(tw_cfg, tw_st, tw_prices))
            /\ tw_st' = RunStart(FreshStrategy(tw_st.self))
            /\ tw_run' = 2
            /\ tw_pos' = 0
            /\ UNCHANGED tw_second
       ELSE /\ tw_second' = Some(RunResult(tw_cfg, tw_st, tw_prices))
            /\ tw_run' = 3
            /\ UNCHANGED <<tw_first, tw_st, tw_pos>>
    /\ UNCHANGED <<tw_cfg, tw_prices, coreVars, lastVars, otherVars, scanVars, statVars,
                   execVars, windowVars>>

(***************************************************************************)
(* runtime/longshot_executor.py: _compute_order_size                       *)
(*                                                                         *)
(* Dollars, prices, sizes and fractions are rationals.  An environment     *)
(* variable is None when unset and Some(value) when set.                   *)
(***************************************************************************)
\* Python's max(a, b) and min(a, b) on floats: the first argument unless the
\* second is strictly larger (smaller)
PyMax(a, b) == IF QLt(a, b) THEN b ELSE a
PyMin(a, b) == IF QLt(b, a) THEN b ELSE a

\* max(x, 1e-6) and max(x, 1e-9): max(x, 1 / unit), where x >= 1 / unit is
\* decided on the integers as unit >= ceil(x.d / x.n)
MaxEps(x, unit) ==
    IF x[1] > 0 /\ (x[2] + x[1] - 1) \div x[1] <= unit THEN x ELSE Q(1, unit)

\* os.getenv(name, default)
GetEnv(value, default) == IF value = None THEN default ELSE value[1]

SizingDecision(size, notional_usd, method) ==
    [size |-> size, notional_usd |-> notional_usd, method |-> method]

_estimate_no_win_prob(yes_price) ==
    IF QLe(yes_price, Q(10, 100)) THEN Q(995, 1000)
    ELSE IF QLe(yes_price, Q(20, 100)) THEN Q(985, 1000)
    ELSE IF QLe(yes_price, Q(35, 100)) THEN Q(957, 1000)
    ELSE Q(917, 1000)

EffectiveBankroll_env_first(bankroll_usd, env_bankroll) ==
    IF env_bankroll # None THEN env_bankroll[1]
    ELSE IF bankroll_usd # None THEN bankroll_usd[1] ELSE QInt(500)

\* `if bankroll_usd is None: bankroll_usd = float(os.getenv("LONGSHOT_BANKROLL_USD", "500"))`
EffectiveBankroll(bankroll_usd, env_bankroll) ==
    IF bankroll_usd = None THEN GetEnv(env_bankroll, QInt(500)) ELSE bankroll_usd[1]

\* the Kelly branch, from `p = _estimate_no_win_prob(yes_price)` on
KellySizing(yes_price, no_price, bankroll, kelly_fraction, max_fraction, min_notional, max_notional) ==
    LET p == _estimate_no_win_prob(yes_price)
        q == QSub(QInt(1), p)
        b == QDiv(QSub(QInt(1), no_price), MaxEps(no_price, 1000000))
        full_kelly == PyMax(QZero, QDiv(QSub(QMul(b, p), q),
                                        MaxEps(b, 1000000000)))
        applied_fraction == PyMin(max_fraction, QMul(full_kelly, kelly_fraction))
        notional_usd == PyMax(min_notional,
                              PyMin(max_notional, QMul(bankroll, applied_fraction)))
    IN  SizingDecision(QDiv(notional_usd, MaxEps(no_price, 1000000)),
                       notional_usd, "kelly")

\* env holds LONGSHOT_USE_KELLY, LONGSHOT_BANKROLL_USD, LONGSHOT_KELLY_FRACTION,
\* LONGSHOT_MAX_BANKROLL_FRACTION, LONGSHOT_MIN_NOTIONAL_USD, LONGSHOT_MAX_NOTIONAL_USD
_compute_order_size(yes_price, no_price, fallback_size, bankroll_usd, env) ==
    LET use_kelly == GetEnv(env.use_kelly, "1") = "1"
        bankroll == EffectiveBankroll(bankroll_usd, env.bankroll_usd)
    IN  IF ~ use_kelly \/ QLe(bankroll, QZero)
        THEN SizingDecision(fallback_size,
                            PyMax(QZero, QMul(fallback_size, no_price)), "fixed")
        ELSE KellySizing(yes_price, no_price, bankroll,
                         GetEnv(env.kelly_fraction, Q(25, 100)),
                         GetEnv(env.max_fraction, Q(3, 100)),
                         GetEnv(env.min_notional, QInt(2)),
                         GetEnv(env.max_notional, QInt(25)))

SizeBankrolls == {None, Some(QInt(-5)), Some(QZero), Some(QInt(10)),
                  Some(QInt(300)), Some(QInt(10000))}
SizeEnvBankrolls == {None, Some(QZero), Some(QInt(200))}
SizeEnvs ==
    [use_kelly : {None, Some("1"), Some("0")},
     bankroll_usd : SizeEnvBankrolls,
     kelly_fraction : {None},
     max_fraction : {None},
     min_notional : {None, Some(QInt(30))},
     max_notional : {None}]
\* yes_price and no_price
SizePrices == {<<Q(30, 100), Q(70, 100)>>, <<Q(8, 100), Q(92, 100)>>,
               <<Q(50, 100), Q(50, 100)>>, <<Q(99, 100), Q(1, 100)>>}

SizeInit ==
    /\ sz_in \in [prices : SizePrices, fallback_size : {QInt(5)},
                  bankroll_usd : SizeBankrolls, env : SizeEnvs]
    /\ sz_out = None

SizeIdle == sz_in = None /\ sz_out = None

ComputeOrderSize ==
    /\ sz_in # None
    /\ sz_out = None
    /\ sz_out' = Some(_compute_order_size(sz_in.prices[1], sz_in.prices[2],
                                          sz_in.fallback_size, sz_in.bankroll_usd,
                                          sz_in.env))
    /\ UNCHANGED <<sz_in, balVars, runVars, coreVars, lastVars, otherVars, scanVars,
                   statVars, twinVars, windowVars>>

(***************************************************************************)
(* runtime/longshot_executor.py: _fetch_usdc_balance                       *)
(*                                                                         *)
(* A JSON value is a tagged tuple: <<"null">>, <<"str", chars>>,           *)
(* <<"num", q>> (a float or an int a float can hold), <<"bigint">> (an int *)
(* above the largest float), <<"list", items>> or <<"dict", pairs>> with   *)
(* pairs a list of <<key, value>>.                                         *)
(***************************************************************************)
JNull == <<"null">>
JStr(chars) == <<"str", chars>>
JNum(q) == <<"num", q>>
JBigInt == <<"bigint">>
JList(items) == <<"list", items>>
JDict(pairs) == <<"dict", pairs>>

\* d.get(key): the value, or None (JNull) when the key is absent
DictGet(d, key) ==
    LET hits == SelectSeq(d[2], LAMBDA kv : kv[1] = key)
    IN  IF hits = <<>> THEN JNull ELSE hits[1][2]

\* d.get(key, default)
DictGetOr(d, key, default) ==
    LET hits == SelectSeq(d[2], LAMBDA kv : kv[1] = key)
    IN  IF hits = <<>> THEN default ELSE hits[1][2]

\* bool(value)
JTruthy(j) ==
    CASE j[1] = "null" -> FALSE
      [] j[1] = "str" -> j[2] # <<>>
      [] j[1] = "num" -> j[2] # QZero
      [] j[1] = "bigint" -> TRUE
      [] OTHER -> j[2] # <<>>

\* `a or b`
JOr(a, b) == IF JTruthy(a) THEN a ELSE b

RECURSIVE Pow10(_)
Pow10(k) == IF k = 0 THEN 1 ELSE 10 * Pow10(k - 1)

\* the position of the first "." in chars, or 0
DotAt(chars) ==
    IF \E i \in 1..Len(chars) : chars[i] = "."
    THEN CHOOSE i \in 1..Len(chars) :
            chars[i] = "." /\ \A j \in 1..(i - 1) : chars[j] # "."
    ELSE 0

\* float(s) of a string of digits with at most one ".": Some(value), or None
\* when float raises ValueError
ParseFloat(chars) ==
    LET dot == DotAt(chars)
        whole == IF dot = 0 THEN chars ELSE SubSeq(chars, 1, dot - 1)
        frac == IF dot = 0 THEN <<>> ELSE SubSeq(chars, dot + 1, Len(chars))
    IN  IF whole \o frac # <<>> /\ IsDecimal(whole \o frac)
        THEN Some(Q(DecimalValue(whole \o frac), Pow10(Len(frac))))
        ELSE None

\* float(value): <<"ok", x>> or the exception raised
PyFloat(j) ==
    CASE j[1] = "num" -> <<"ok", j[2]>>
      [] j[1] = "str" -> IF ParseFloat(j[2]) # None
                         THEN <<"ok", ParseFloat(j[2])[1]>>
                         ELSE <<"ValueError">>
      [] j[1] = "bigint" -> <<"OverflowError">>
      [] OTHER -> <<"TypeError">>

\* `except (TypeError, ValueError): continue`
Caught(r) == r[1] \in {"TypeError", "ValueError"}

FlatKeys == <<"USDC", "usdc", "collateral", "free", "available">>

LowerCase == <<"a", "b", "c", "d", "e", "f", "g", "h", "i", "j", "k", "l", "m",
               "n", "o", "p", "q", "r", "s", "t", "u", "v", "w", "x", "y", "z">>
UpperCase == <<"A", "B", "C", "D", "E", "F", "G", "H", "I", "J", "K", "L", "M",
               "N", "O", "P", "Q", "R", "S", "T", "U", "V", "W", "X", "Y", "Z">>

\* s.upper()
Upper(chars) ==
    [i \in 1..Len(chars) |->
        IF \E k \in 1..26 : LowerCase[k] = chars[i]
        THEN UpperCase[CHOOSE k \in 1..26 : LowerCase[k] = chars[i]]
        ELSE chars[i]]

\* str(value) of a string or of the default ""
StrOf(j) == IF j[1] = "str" THEN j[2] ELSE <<>>

IsUsdcItem(item) ==
    /\ item[1] = "dict"
    /\ Upper(StrOf(DictGetOr(item, "asset", DictGetOr(item, "token", JStr(<<>>)))))
           \in {<<"U", "S", "D", "C">>,
                <<"C", "O", "L", "L", "A", "T", "E", "R", "A", "L">>}

\* the result of a scan: <<"return", Some(x)>> when a float was parsed,
\* <<exc>> when float raised something the loop does not catch, else None
RECURSIVE FlatScan(_, _)
FlatScan(balances, k) ==
    IF k > Len(FlatKeys) THEN None
    ELSE LET val == DictGet(balances, FlatKeys[k])
         IN  IF val = JNull THEN FlatScan(balances, k + 1)
             ELSE IF PyFloat(val)[1] = "ok" THEN Some(<<"return", Some(PyFloat(val)[2])>>)
             ELSE IF Caught(PyFloat(val)) THEN FlatScan(balances, k + 1)
             ELSE Some(PyFloat(val))

RECURSIVE NestedScan(_, _)
NestedScan(items, k) ==
    IF k > Len(items) THEN None
    ELSE IF ~ IsUsdcItem(items[k]) THEN NestedScan(items, k + 1)
    ELSE LET val == DictGetOr(items[k], "balance",
                              DictGetOr(items[k], "amount", JNum(QZero)))
         IN  IF PyFloat(val)[1] = "ok" THEN Some(<<"return", Some(PyFloat(val)[2])>>)
             ELSE IF Caught(PyFloat(val)) THEN NestedScan(items, k + 1)
             ELSE Some(PyFloat(val))

\* what the call does given what trader.get_balances() does: <<"return", x>>
\* with x None or Some(float), or <<exc>>
_fetch_usdc_balance(get_balances) ==
    IF get_balances[1] = "raise" THEN <<"return", None>>
    ELSE LET balances == get_balances[2]
         IN  IF balances[1] # "dict" THEN <<"return", None>>
             ELSE IF FlatScan(balances, 1) # None THEN FlatScan(balances, 1)[1]
             ELSE LET nested == JOr(DictGet(balances, "balances"),
                                    JOr(DictGet(balances, "data"), JList(<<>>)))
                  IN  IF nested[1] = "list" /\ NestedScan(nested[2], 1) # None
                      THEN NestedScan(nested[2], 1)[1]
                      ELSE <<"return", None>>

MaxItems == 2

BalanceStrings == {<<"1", "0", ".", "5", "0">>, <<"n", "a", "n", "a">>}
FlatValues == {JStr(c) : c \in BalanceStrings} \cup {JNum(Q(17, 2)), JNull, JBigInt}
NestedItems ==
    {JStr(<<"x">>),
     JDict(<<<<"asset", JStr(<<"E", "T", "H">>)>>, <<"balance", JStr(<<"0">>)>>>>),
     JDict(<<<<"asset", JStr(<<"U", "S", "D", "C">>)>>>>),
     JDict(<<<<"token", JStr(<<"c", "o", "l", "l", "a", "t", "e", "r", "a", "l">>)>>,
             <<"amount", JStr(<<"7">>)>>>>)}
      \cup {JDict(<<<<"asset", JStr(<<"u", "s", "d", "c">>)>>, <<"balance", v>>>>) :
                v \in FlatValues}
NestedValues == {JList(items) : items \in SeqsUpTo(NestedItems, MaxItems)}
                    \cup {JStr(<<"5">>)}
FlatPairs ==
    {<<k, v>> : k \in {"USDC", "free"}, v \in FlatValues}
        \cup {<<"foo", JStr(<<"b", "a", "r">>)>>}
NestedPairs == {<<k, v>> : k \in {"balances", "data"}, v \in NestedValues}
\* flat layouts, a nested layout alone or after a flat key, and an empty
\* "balances" list followed by "data"
BalanceDicts ==
    {JDict(ps) : ps \in {qs \in SeqsUpTo(FlatPairs, 2) :
                             Len(qs) = 2 => qs[1][1] # qs[2][1]}}
        \cup {JDict(f \o <<n>>) : f \in SeqsUpTo(FlatPairs, 1), n \in NestedPairs}
        \cup {JDict(<<<<"balances", JList(<<>>)>>, <<"data", v>>>>) :
                  v \in NestedValues}
\* what trader.get_balances() does: it raises, or it returns a JSON value
BalanceResponses ==
    {<<"raise">>} \cup {<<"ok", j>> : j \in BalanceDicts \cup {JNull, JList(<<>>), JStr(<<"b", "a", "d">>)}}

BalInit == fb_in \in BalanceResponses /\ fb_out = None

BalIdle == fb_in = None /\ fb_out = None

FetchUsdcBalance ==
    /\ fb_in # None
    /\ fb_out = None
    /\ fb_out' = Some(_fetch_usdc_balance(fb_in))
    /\ UNCHANGED <<fb_in, sizeVars, runVars, coreVars, lastVars, otherVars, scanVars,
                   statVars, twinVars, windowVars>>

(***************************************************************************)
(* runtime/longshot_executor.py: run_once                                  *)
(*                                                                         *)
(* A cycle is one call of run_once.  The state file holds None (no file)   *)
(* or the saved state; a position is its slug, a closed position carries   *)
(* its pnl_usd.  Time is counted in ticks of half the guardrail cooldown.  *)
(* What the services answer (the balance, each market's status, the        *)
(* candidates, the order acknowledgement) is drawn when the cycle asks.    *)
(***************************************************************************)
MaxCycles == 3

Slugs == {"a", "b"}

\* the settings read from the environment: LONGSHOT_MIN_NOTIONAL_USD,
\* LONGSHOT_MAX_ACTIONS_PER_CYCLE and LONGSHOT_GUARDRAIL_MIN_PNL_USD at their
\* defaults, LONGSHOT_GUARDRAIL_WINDOW_TRADES set to 2, _MIN_TRADES set to 1
\* and LONGSHOT_GUARDRAIL_COOLDOWN_MIN as two ticks; the minimum win rate is
\* the default 0.35
ExecSettings ==
    [min_notional |-> 2, max_actions |-> 1, window_trades |-> 2,
     min_trades |-> 1, min_pnl |-> -5, cooldown |-> 2]

\* the settings _compute_order_size reads: LONGSHOT_BANKROLL_USD is 200
SizingEnv ==
    [use_kelly |-> None, bankroll_usd |-> Some(QInt(200)), kelly_fraction |-> None,
     max_fraction |-> None, min_notional |-> None, max_notional |-> None]

\* what _fetch_usdc_balance does: it returns None or dollars, or it raises
BalanceFetches ==
    {<<"return", b>> : b \in {None, Some(1), Some(2), Some(10)}}
        \cup {<<"OverflowError">>}
\* the pnl_usd of a position closed as resolved: None without a closing price
ClosePnls == {None, Some(-6), Some(1)}
\* pmd.get_market(slug): PMDError, another exception, or a market that is
\* open, past its end date, or resolved
MarketAnswers == {<<"PMDError">>, <<"error">>, <<"open">>, <<"elapsed">>}
                     \cup {<<"resolved", p>> : p \in ClosePnls}

EmptyState ==
    [open_positions |-> <<>>, closed_positions |-> <<>>,
     guardrail_last_alert_at |-> None]

\* _normalize_state(_load_state(path))
LoadState(file) == IF file = None THEN EmptyState ELSE file[1]

\* ret: what run_once returned or raised; fetched, traders: calls of
\* _fetch_usdc_balance and constructions of the trading client; balance: the
\* balance fetched; warnings: the early-exit and fallback warnings logged;
\* closed, opened: positions closed and recorded; breach: the guardrail's
\* breach test; placed: place_order calls; sizing: _compute_order_size calls
NoObs ==
    [ret |-> None, fetched |-> 0, traders |-> 0, balance |-> None, warnings |-> <<>>,
     closed |-> <<>>, breach |-> None, scanned |-> FALSE, placed |-> <<>>,
     opened |-> <<>>, sizing |-> <<>>, saved |-> FALSE]

Without(slugs, slug) == SelectSeq(slugs, LAMBDA s : s # slug)

InSeq(xs, x) == \E i \in 1..Len(xs) : xs[i] = x

\* the closed positions that carry a pnl, their last `window` entries
RecentPnls(state) ==
    LET closed == SelectSeq(state.closed_positions, LAMBDA p : p.pnl_usd # None)
    IN  [i \in 1..Len(Suffix(closed, ExecSettings.window_trades)) |->
            Suffix(closed, ExecSettings.window_trades)[i].pnl_usd[1]]

EnoughTrades(state) ==
    Len(SelectSeq(state.closed_positions, LAMBDA p : p.pnl_usd # None))
        >= ExecSettings.min_trades

\* `total_pnl <= min_pnl or win_rate < min_win_rate`
Breached(pnls) ==
    LET wins == Len(SelectSeq(pnls, LAMBDA p : p > 0))
        n == IF Len(pnls) > 1 THEN Len(pnls) ELSE 1
    IN  sum(pnls) <= ExecSettings.min_pnl \/ 100 * wins < 35 * n

\* `(now - last_dt) < timedelta(minutes=cooldown_min)`
InCooldown(state, now) ==
    /\ state.guardrail_last_alert_at # None
    /\ now - state.guardrail_last_alert_at[1] < ExecSettings.cooldown

\* _evaluate_guardrail returns a message
GuardrailFires(enabled, state, now) ==
    /\ enabled
    /\ EnoughTrades(state)
    /\ Breached(RecentPnls(state))
    /\ ~ InCooldown(state, now)

\* the breach condition at the guardrail check, cooldown aside
BreachHolds(enabled, state) ==
    enabled /\ EnoughTrades(state) /\ Breached(RecentPnls(state))

\* `if not dry_run`
Live_always(env) == TRUE

Live(env) == ~ env.dry_run

BalanceBelowMin_or_equal(balance) ==
    balance # None /\ balance[1] <= ExecSettings.min_notional

\* `live_bankroll_usd is not None` and `live_bankroll_usd < min_notional`
BalanceBelowMin(balance) ==
    balance # None /\ balance[1] < ExecSettings.min_notional

ExecInit ==
    /\ ex_env \in [dry_run : BOOLEAN, pmd_key : BOOLEAN, creds : BOOLEAN,
                   guardrail : BOOLEAN]
    /\ ex_file = None
    /\ ex_now = 0
    /\ ex_pc = "idle"
    /\ ex_state = None
    /\ ex_todo = <<>>
    /\ ex_actions = 0
    /\ ex_live = None
    /\ ex_obs = NoObs
    /\ ex_cycles = 0

ExecIdle ==
    /\ ex_env = None
    /\ ex_file = None
    /\ ex_now = 0
    /\ ex_pc = "off"
    /\ ex_state = None
    /\ ex_todo = <<>>
    /\ ex_actions = 0
    /\ ex_live = None
    /\ ex_obs = None
    /\ ex_cycles = 0

\* the cycle ends: run_once returns or raises
ExEnd(ret, obs, save) ==
    /\ ex_pc' = "idle"
    /\ ex_obs' = [obs EXCEPT !.ret = Some(ret), !.saved = save]
    /\ ex_cycles' = ex_cycles + 1

\* lines 411-465: the environment is read, the state is loaded and, in live
\* mode, the trading client is built and the balance is fetched
ExStart ==
    /\ ex_pc = "idle"
    /\ ex_cycles < MaxCycles
    /\ \E dt \in 1..ExecSettings.cooldown, fetch \in BalanceFetches :
         LET state == LoadState(ex_file)
             live == Live(ex_env)
             balance == IF live /\ fetch[1] = "return" THEN fetch[2] ELSE None
             obs == [NoObs EXCEPT
                        !.fetched = IF live THEN 1 ELSE 0,
                        !.traders = IF live THEN 1 ELSE 0,
                        !.balance = balance,
                        !.warnings =
                            IF ~ live \/ fetch[1] # "return" THEN <<>>
                            ELSE IF balance = None THEN <<"balance_fetch_failed">>
                            ELSE IF BalanceBelowMin(balance)
                            THEN <<"balance_below_min_notional">>
                            ELSE <<>>]
             warned(w) == [NoObs EXCEPT !.warnings = <<w>>]
         IN  /\ ex_now' = ex_now + dt
             /\ (~ live \/ ~ ex_env.pmd_key \/ ~ ex_env.creds =>
                    fetch = <<"return", None>>)
             /\ IF ~ ex_env.pmd_key
                THEN /\ ExEnd(<<"return", 0>>, warned("missing_polymarketdata_api_key"),
                              FALSE)
                     /\ UNCHANGED <<ex_file, ex_state, ex_todo, ex_live>>
                ELSE IF live /\ ~ ex_env.creds
                THEN /\ ExEnd(<<"return", 0>>, warned("missing_trading_credentials"),
                              FALSE)
                     /\ UNCHANGED <<ex_file, ex_state, ex_todo, ex_live>>
                ELSE IF live /\ fetch[1] # "return"
                THEN /\ ExEnd(<<"raise", fetch[1]>>, obs, FALSE)
                     /\ UNCHANGED <<ex_file, ex_state, ex_todo, ex_live>>
                ELSE IF BalanceBelowMin(balance)
                THEN /\ ExEnd(<<"return", 0>>, obs, TRUE)
                     /\ ex_file' = Some(state)
                     /\ UNCHANGED <<ex_state, ex_todo, ex_live>>
                ELSE /\ ex_pc' = "hold"
                     /\ ex_state' = Some(state)
                     /\ ex_todo' = state.open_positions
                     /\ ex_live' = balance
                     /\ ex_obs' = obs
                     /\ UNCHANGED <<ex_file, ex_cycles>>
    /\ ex_actions' = 0
    /\ UNCHANGED <<ex_env, sizeVars, balVars, coreVars, lastVars, otherVars, scanVars,
                   statVars, twinVars, windowVars>>

\* lines 467-498: one iteration of the loop over list(open_positions.items())
ExHold ==
    /\ ex_pc = "hold"
    /\ ex_todo # <<>>
    /\ \E answer \in MarketAnswers :
         LET slug == Head(ex_todo)
             state == ex_state[1]
             closes == answer[1] \in {"resolved", "elapsed"}
             pos == [slug |-> slug,
                     pnl_usd |-> IF answer[1] = "resolved" THEN answer[2] ELSE None,
                     closed_reason |-> answer[1]]
         IN  IF answer[1] = "error"
             THEN /\ ExEnd(<<"raise", "Exception">>, ex_obs, FALSE)
                  /\ UNCHANGED <<ex_state, ex_todo>>
             ELSE /\ ex_state' =
                        IF closes
                        THEN Some([state EXCEPT
                                 !.closed_positions = Append(@, pos),
                                 !.open_positions = Without(@, slug)])
                        ELSE ex_state
                  /\ ex_obs' = IF closes
                               THEN [ex_obs EXCEPT !.closed = Append(@, slug)]
                               ELSE ex_obs
                  /\ ex_todo' = Tail(ex_todo)
                  /\ UNCHANGED <<ex_pc, ex_cycles>>
    /\ UNCHANGED <<ex_env, ex_file, ex_now, ex_actions, ex_live, sizeVars, balVars,
                   coreVars, lastVars, otherVars, scanVars, statVars, twinVars, windowVars>>

\* lines 500-503: _evaluate_guardrail; a message saves the state and raises
ExGuardrail ==
    /\ ex_pc = "hold"
    /\ ex_todo = <<>>
    /\ LET state == ex_state[1]
           obs == [ex_obs EXCEPT !.breach = Some(BreachHolds(ex_env.guardrail, state))]
           alerted == [state EXCEPT !.guardrail_last_alert_at = Some(ex_now)]
       IN  IF GuardrailFires(ex_env.guardrail, state, ex_now)
           THEN /\ ExEnd(<<"raise", "RuntimeError">>, obs, TRUE)
                /\ ex_state' = Some(alerted)
                /\ ex_file' = Some(alerted)
           ELSE /\ ex_pc' = "scan"
                /\ ex_obs' = obs
                /\ UNCHANGED <<ex_state, ex_file, ex_cycles>>
    /\ UNCHANGED <<ex_env, ex_now, ex_todo, ex_actions, ex_live, sizeVars, balVars,
                   coreVars, lastVars, otherVars, scanVars, statVars, twinVars, windowVars>>

\* lines 505-528: _scan_candidates raises, or returns markets that are not
\* open positions; no candidate ends the cycle
ExScan ==
    /\ ex_pc = "scan"
    /\ \E scan \in {<<"raise">>} \cup
                   {<<"ok", c>> : c \in SeqsUpTo(Slugs, 2)} :
         LET obs == [ex_obs EXCEPT !.scanned = TRUE]
         IN  IF scan[1] = "raise"
             THEN /\ ExEnd(<<"raise", "Exception">>, obs, FALSE)
                  /\ UNCHANGED ex_todo
             ELSE /\ \A i \in 1..Len(scan[2]) :
                        /\ ~ InSeq(ex_state[1].open_positions, scan[2][i])
                        /\ \A j \in 1..Len(scan[2]) : scan[2][i] = scan[2][j] => i = j
                  /\ IF scan[2] = <<>>
                     THEN /\ ExEnd(<<"return", 0>>, obs, FALSE)
                          /\ UNCHANGED ex_todo
                     ELSE /\ ex_pc' = "orders"
                          /\ ex_todo' = scan[2]
                          /\ ex_obs' = obs
                          /\ UNCHANGED ex_cycles
    /\ UNCHANGED <<ex_env, ex_file, ex_now, ex_state, ex_actions, ex_live, sizeVars,
                   balVars, coreVars, lastVars, otherVars, scanVars, statVars, twinVars,
                   windowVars>>

\* lines 531-613: one iteration of `for c in candidates`
ExOrder ==
    /\ ex_pc = "orders"
    /\ ex_todo # <<>>
    /\ ex_actions < ExecSettings.max_actions
    /\ \E ack \in {"ok", "raise"} :
         LET slug == Head(ex_todo)
             state == ex_state[1]
             sizing == _compute_order_size(Q(30, 100), Q(70, 100), QInt(5),
                           IF ex_live = None THEN None ELSE Some(QInt(ex_live[1])),
                           SizingEnv)
             sized == [ex_obs EXCEPT
                          !.sizing = Append(@, [bankroll_usd |-> ex_live,
                                                decision |-> sizing])]
         IN  /\ (~ Live(ex_env) => ack = "ok")
             /\ IF InSeq(state.open_positions, slug)
                THEN /\ ex_todo' = Tail(ex_todo)
                     /\ UNCHANGED <<ex_pc, ex_state, ex_obs, ex_actions, ex_cycles>>
                ELSE IF ack = "raise"
                THEN /\ ExEnd(<<"raise", "Exception">>, sized, FALSE)
                     /\ UNCHANGED <<ex_state, ex_todo, ex_actions>>
                ELSE /\ ex_state' = Some([state EXCEPT
                                             !.open_positions = Append(@, slug)])
                     /\ ex_obs' = [sized EXCEPT
                                      !.placed = IF Live(ex_env)
                                                 THEN Append(@, slug) ELSE @,
                                      !.opened = Append(@, slug)]
                     /\ ex_actions' = ex_actions + 1
                     /\ ex_todo' = Tail(ex_todo)
                     /\ UNCHANGED <<ex_pc, ex_cycles>>
    /\ UNCHANGED <<ex_env, ex_file, ex_now, ex_live, sizeVars, balVars, coreVars, lastVars,
                   otherVars, scanVars, statVars, twinVars, windowVars>>

\* lines 531-533 and 615-619: the loop ends or breaks, the state is saved
ExFinish ==
    /\ ex_pc = "orders"
    /\ ex_todo = <<>> \/ ex_actions >= ExecSettings.max_actions
    /\ ExEnd(<<"return", ex_actions>>, ex_obs, TRUE)
    /\ ex_file' = ex_state
    /\ UNCHANGED <<ex_env, ex_now, ex_state, ex_todo, ex_actions, ex_live, sizeVars,
                   balVars, coreVars, lastVars, otherVars, scanVars, statVars, twinVars,
                   windowVars>>

(***************************************************************************)
(* analytics/engine.py: the sliding windows of BacktestEngine.run          *)
(*                                                                         *)
(* wn_seen is the series read so far; the windows are the locals           *)
(* price_window and book_window after lines 247-251 of the latest bar.     *)
(***************************************************************************)
MaxWindowBars == 4

WindowCapacities == {1, 2, 3}
WindowPrices == {40, 50}
WindowBooks == {[bids |-> <<>>, asks |-> <<>>],
                [bids |-> <<<<39, 10>>>>, asks |-> <<<<41, 10>>>>]}

WindowInit ==
    /\ wn_hw \in WindowCapacities
    /\ wn_seen = <<>>
    /\ wn_prices = <<>>
    /\ wn_books = <<>>

WindowIdle ==
    /\ wn_hw = 0
    /\ wn_seen = <<>>
    /\ wn_prices = <<>>
    /\ wn_books = <<>>

\* lines 242-251: the next bar is appended to both windows
WindowBar ==
    /\ wn_hw > 0
    /\ Len(wn_seen) < MaxWindowBars
    /\ \E price \in WindowPrices, book \in WindowBooks :
         /\ wn_seen' = Append(wn_seen, [price |-> price, book |-> book])
         /\ wn_prices' = AppendWindow(wn_prices, price, wn_hw)
         /\ wn_books' = AppendWindow(wn_books, book, wn_hw)
    /\ UNCHANGED <<wn_hw, coreVars, lastVars, otherVars, scanVars, statVars, twinVars,
                   execVars>>

(***************************************************************************)
(* analytics/models.py: BacktestResult.max_drawdown                        *)
(*                                                                         *)
(* The trades of a result are drawn from DrawdownTrades; t.pnl is the net  *)
(* pnl of models.py, carried times 100 like everywhere else.               *)
(***************************************************************************)
MaxDrawdownTrades == 4

\* a winner, a loser, a larger loser and a trade that nets nothing
DrawdownTrades ==
    {Trade(TradeSignal(1, BUY, 50), 50, 58, 2, "take_profit", 0),
     Trade(TradeSignal(1, SELL, 50), 50, 55, 2, "stop_loss", 0),
     Trade(TradeSignal(1, BUY, 50), 50, 40, 2, "stop_loss", 2),
     Trade(TradeSignal(1, SELL, 50), 50, 50, 2, "timeout", 0)}

\* lines 124-130: the loop from the k-th trade on
RECURSIVE DrawdownLoop(_, _, _, _, _)
DrawdownLoop(trs, k, cumulative, peak, max_dd) ==
    IF k > Len(trs) THEN max_dd
    ELSE LET cumulative2 == cumulative + pnl(trs[k])
             peak2 == IF cumulative2 > peak THEN cumulative2 ELSE peak
             dd == peak2 - cumulative2
         IN  DrawdownLoop(trs, k + 1, cumulative2, peak2,
                          IF dd > max_dd THEN dd ELSE max_dd)

max_drawdown_from_first_trade(trs) ==
    IF trs = <<>> THEN 0 ELSE DrawdownLoop(trs, 2, pnl(trs[1]), pnl(trs[1]), 0)

\* BacktestResult.max_drawdown
max_drawdown(trs) ==
    IF trs = <<>> THEN 0 ELSE DrawdownLoop(trs, 1, 0, 0, 0)

DrawdownInit ==
    /\ dd_in \in {Some(trs) : trs \in SeqsUpTo(DrawdownTrades, MaxDrawdownTrades)}
    /\ dd_out = None

DrawdownIdle == dd_in = None /\ dd_out = None

ComputeDrawdown ==
    /\ dd_in # None
    /\ dd_out = None
    /\ dd_out' = Some(max_drawdown(dd_in[1]))
    /\ UNCHANGED <<dd_in, coreVars, otherVars, laterVars, whaleVars, raceVars,
                   replayVars>>

(***************************************************************************)
(* analytics/strategies/whale_watcher.py                                   *)
(*                                                                         *)
(* A level is [price, size] with the price in ticks, so a notional is in   *)
(* cents.  The strategy is called on every bar of a caller that passes the *)
(* latest trend_lookback + 1 prices as price_history.                      *)
(***************************************************************************)
MaxWhaleCalls == 7

\* whale_z_threshold 1.0, trend_lookback 1, min_trend_move 0.02,
\* min_whale_notional 5.00 and stat_window 5
WhaleParams ==
    [whale_z_threshold |-> 1, trend_lookback |-> 1, min_trend_move |-> 2,
     min_whale_notional |-> 500, stat_window |-> 5]

WhalePrices == {50, 55}
\* a quiet book, a large bid against a thin ask side, a large bid against a
\* thicker ask side, and a large ask
WhaleBooks ==
    {[bids |-> <<<<50, 2>>>>, asks |-> <<<<50, 2>>>>],
     [bids |-> <<<<50, 12>>>>, asks |-> <<<<50, 2>>>>],
     [bids |-> <<<<50, 12>>>>, asks |-> <<<<50, 4>>, <<51, 2>>>>],
     [bids |-> <<<<50, 2>>>>, asks |-> <<<<50, 12>>>>]}

RECURSIVE _best_notional(_)
\* max(price * size for price, size in levels), 0.0 for no level
_best_notional(levels) ==
    IF levels = <<>> THEN 0
    ELSE LET first == Head(levels)[1] * Head(levels)[2]
             rest == _best_notional(Tail(levels))
         IN  IF first > rest THEN first ELSE rest

\* sum(price * size for price, size in levels)
_total_notional(levels) == Notional(levels)

\* _rolling_mean_std, with the variance in place of its square root
_rolling_mean_var(values) ==
    LET n == Len(values)
        mean == Q(sum(values), n)
    IN  IF n = 0 THEN <<QZero, QZero>>
        ELSE IF n < 2 THEN <<mean, QZero>>
        ELSE <<mean, QDiv(SumSqDev(QSeq(values), mean), QInt(n - 1))>>

\* `z = (x - mean) / std if std > 0 else 0.0` and `z >= threshold`, for a
\* positive threshold: decided on the squares
ZScoreAtLeast(x, stats, threshold) ==
    LET above == QSub(QInt(x), stats[1])
    IN  /\ QLt(QZero, stats[2])
        /\ QLe(QZero, above)
        /\ QLe(QMul(QInt(threshold * threshold), stats[2]), QMul(above, above))

\* whale_on_bid / whale_on_ask: the current notional against the earlier ones
IsWhale(notionals, p) ==
    LET x == notionals[Len(notionals)]
        stats == _rolling_mean_var(SubSeq(notionals, 1, Len(notionals) - 1))
    IN  ZScoreAtLeast(x, stats, p.whale_z_threshold) /\ x >= p.min_whale_notional

\* `total_bids / denom if denom > 0 else 0.5`
Imbalance(book) ==
    LET total_bids == _total_notional(book.bids)
        denom == total_bids + _total_notional(book.asks)
    IN  IF denom > 0 THEN Q(total_bids, denom) ELSE Q(1, 2)

\* lines 166-170: both rolling lists after the append and the eviction
Rolled(notionals, x, p) ==
    LET appended == Append(notionals, x)
    IN  IF Len(appended) > p.stat_window THEN Tail(appended) ELSE appended

\* lines 172-181: on_step returns before the imbalance is looked at
ReturnsEarly(bid_notionals, price_history, p) ==
    LET floor == IF p.stat_window \div 2 > 5 THEN p.stat_window \div 2 ELSE 5
        n == Len(price_history)
    IN  \/ Len(bid_notionals) < floor
        \/ n < p.trend_lookback + 1
        \/ Abs(price_history[n] - price_history[n - p.trend_lookback]) < p.min_trend_move

\* lines 202-249: the signal rules
WhaleSignal(whale_on_bid, whale_on_ask, trend_is_up, confirm, imbalance_delta) ==
    IF whale_on_bid /\ ~ trend_is_up /\ ~ (confirm /\ QLe(imbalance_delta, QZero))
    THEN Some(BUY)
    ELSE IF whale_on_ask /\ trend_is_up /\ ~ (confirm /\ QLe(QZero, imbalance_delta))
    THEN Some(SELL)
    ELSE None

\* WhaleWatcherStrategy.on_step: the signal and the strategy object after it
WhaleWatcher_on_step(self, book, price_history, p) ==
    LET bids == Rolled(self._bid_notionals, _best_notional(book.bids), p)
        asks == Rolled(self._ask_notionals, _best_notional(book.asks), p)
        rolled == [self EXCEPT !._bid_notionals = bids, !._ask_notionals = asks]
        n == Len(price_history)
        imbalance == Imbalance(book)
        imbalance_delta == IF self._prev_imbalance # None
                           THEN QSub(imbalance, self._prev_imbalance[1])
                           ELSE QZero
    IN  IF ReturnsEarly(bids, price_history, p)
        THEN [signal |-> None, self |-> rolled]
        ELSE [signal |-> WhaleSignal(IsWhale(bids, p), IsWhale(asks, p),
                                     price_history[n] - price_history[n - p.trend_lookback] > 0,
                                     self.imbalance_confirm, imbalance_delta),
              self |-> [rolled EXCEPT !._prev_imbalance = Some(imbalance)]]

WhaleInit ==
    /\ wh_self \in {Some([_bid_notionals |-> <<>>, _ask_notionals |-> <<>>,
                          _prev_imbalance |-> None, imbalance_confirm |-> c]) :
                       c \in BOOLEAN}
    /\ wh_prices = <<>>
    /\ wh_last = None
    /\ wh_n = 0

WhaleIdle == wh_self = None /\ wh_prices = <<>> /\ wh_last = None /\ wh_n = 0

\* the caller's next bar: the window slides and on_step is called
WhaleOnStep ==
    /\ wh_self # None
    /\ wh_n < MaxWhaleCalls
    /\ \E price \in WhalePrices, book \in WhaleBooks :
         LET history == AppendWindow(wh_prices, price, WhaleParams.trend_lookback + 1)
             step == WhaleWatcher_on_step(wh_self[1], book, history, WhaleParams)
         IN  /\ wh_prices' = history
             /\ wh_self' = Some(step.self)
             /\ wh_last' = Some([book |-> book,
                                 prev_book |-> IF wh_last = None THEN None
                                               ELSE Some(wh_last[1].book),
                                 signal |-> step.signal])
    /\ wh_n' = wh_n + 1
    /\ UNCHANGED <<coreVars, otherVars, laterVars, drawdownVars, raceVars, replayVars>>

(***************************************************************************)
(* analytics/engine.py: BacktestEngine.run from the fetched series on,     *)
(* with LongshotBiasStrategy as the strategy                               *)
(*                                                                         *)
(* rp_fetched is _extract_price_series(raw_prices) in the order the        *)
(* provider returned it; no book snapshot is fetched, so every bar gets    *)
(* the empty book of line 245 and executes at the mid.                     *)
(***************************************************************************)
MaxReplayBars == 3

ReplayTimestamps == {1, 2, 3}
\* a longshot price, a neutral price and a favorite price
ReplayPrices == {34, 36, 66}
ReplayBars == [ts : ReplayTimestamps, price : ReplayPrices]

\* stop_loss 0.05, take_profit 0.08, no fee; thresholds 0.35 and 0.65
ReplayConfigs ==
    [stop_loss : {5}, take_profit : {8}, hold_periods : {0, 1, 2}, fee_rate : {0},
     history_window : {1, 2}, longshot_threshold : {35}, favorite_threshold : {65},
     min_price : {4}, max_price : {96}]

RECURSIVE InsertBar(_, _)
\* the bar goes behind every bar whose ts is not larger: sorted() is stable
InsertBar(sorted, b) ==
    IF sorted = <<>> THEN <<b>>
    ELSE IF b.ts < Head(sorted).ts THEN <<b>> \o sorted
    ELSE <<Head(sorted)>> \o InsertBar(Tail(sorted), b)

SortedByTs_as_fetched(series) == series

RECURSIVE SortedByTs(_)
\* sorted(series, key=lambda x: x["ts"])
SortedByTs(series) ==
    IF series = <<>> THEN <<>>
    ELSE InsertBar(SortedByTs(SubSeq(series, 1, Len(series) - 1)),
                   series[Len(series)])

ReplayInit ==
    /\ rp_cfg \in {Some(c) : c \in ReplayConfigs}
    /\ rp_fetched \in SeqsUpTo(ReplayBars, MaxReplayBars)
    /\ rp_pc = "call"
    /\ rp_st = None
    /\ rp_log = <<>>

ReplayIdle ==
    rp_cfg = None /\ rp_fetched = <<>> /\ rp_pc = "off" /\ rp_st = None /\ rp_log = <<>>

\* lines 213-240: an empty series raises; the series is sorted, the strategy
\* is the one handed in and the locals of the loop are set
ReplayStart ==
    /\ rp_pc = "call"
    /\ IF rp_fetched = <<>>
       THEN rp_pc' = "raised" /\ rp_st' = rp_st
       ELSE /\ rp_pc' = "loop"
            /\ rp_st' = Some([price_series |-> SortedByTs(rp_fetched),
                              open_trade |-> None,
                              price_window |-> <<>>,
                              trades |-> <<>>,
                              strategy |-> [longshot_threshold |-> rp_cfg[1].longshot_threshold,
                                            favorite_threshold |-> rp_cfg[1].favorite_threshold,
                                            min_price |-> rp_cfg[1].min_price,
                                            max_price |-> rp_cfg[1].max_price,
                                            _prev_zone |-> None]])
    /\ UNCHANGED <<rp_cfg, rp_fetched, rp_log, coreVars, otherVars, laterVars,
                   drawdownVars, whaleVars, raceVars>>

\* lines 254-277: the position after the exit check of a bar, and the trades
AfterExit(st, b, cfg) ==
    LET pos == st.open_trade[1]
        exit_reason == IF st.open_trade = None THEN None
                       ELSE _check_exit(pos, b.price, cfg.stop_loss, cfg.take_profit,
                                        cfg.hold_periods)
        trade == Trade(pos.signal, pos.entry_price,
                       _exit_exec_price(pos.signal.signal, NoBook, b.price),
                       b.ts, exit_reason[1], cfg.fee_rate)
    IN  [exit_reason |-> exit_reason,
         open_trade |-> IF exit_reason # None THEN None ELSE st.open_trade,
         trades |-> IF exit_reason # None THEN AppendTrade(st.trades, trade)
                    ELSE st.trades]

\* lines 279-302: the strategy is asked and a signal other than HOLD opens
AfterEntry(ot, window, strategy, b, cfg) ==
    LET asked == CanEnter(ot, window, cfg.history_window)
        step == LongshotBias_on_step(strategy, b.price)
        signal == IF asked THEN step.signal ELSE None
    IN  [asked |-> asked,
         signal |-> signal,
         strategy |-> IF asked THEN [strategy EXCEPT !._prev_zone = step._prev_zone]
                      ELSE strategy,
         open_trade |-> IF signal # None /\ signal[1] # HOLD
                        THEN Some(_OpenPosition(
                                 TradeSignal(b.ts, signal[1], b.price),
                                 _entry_exec_price(signal[1], NoBook, b.price),
                                 b.price, 0))
                        ELSE ot]

\* lines 242-305: one iteration of `for bar in price_series`
ReplayBar ==
    /\ rp_pc = "loop"
    /\ Len(rp_log) < Len(rp_st[1].price_series)
    /\ LET st == rp_st[1]
           cfg == rp_cfg[1]
           k == Len(rp_log) + 1
           b == st.price_series[k]
           window == AppendWindow(st.price_window, b.price, cfg.history_window)
           exited == AfterExit(st, b, cfg)
           entered == AfterEntry(exited.open_trade, window, st.strategy, b, cfg)
       IN  /\ rp_st' = Some([st EXCEPT
                  !.price_window = window,
                  !.trades = exited.trades,
                  !.strategy = entered.strategy,
                  !.open_trade = IF entered.open_trade = None THEN None
                                 ELSE Some([entered.open_trade[1] EXCEPT
                                               !.bars_held = @ + 1])])
           /\ rp_log' = Append(rp_log,
                  [bar |-> b,
                   held |-> IF st.open_trade = None THEN None
                            ELSE Some(st.open_trade[1].bars_held),
                   exit_reason |-> exited.exit_reason,
                   free |-> exited.open_trade = None,
                   full |-> Len(window) >= cfg.history_window,
                   asked |-> entered.asked,
                   signal |-> entered.signal,
                   entry |-> IF entered.open_trade = None THEN 0
                             ELSE IF entered.open_trade = exited.open_trade
                             THEN rp_log[k - 1].entry
                             ELSE k])
    /\ UNCHANGED <<rp_cfg, rp_fetched, rp_pc, coreVars, otherVars, laterVars,
                   drawdownVars, whaleVars, raceVars>>

\* lines 307-324: a position still open is closed at the last bar and the
\* result is returned
ReplayReturn ==
    /\ rp_pc = "loop"
    /\ Len(rp_log) = Len(rp_st[1].price_series)
    /\ LET st == rp_st[1]
           last_bar == st.price_series[Len(st.price_series)]
           pos == st.open_trade[1]
           trade == Trade(pos.signal, pos.entry_price,
                          _exit_exec_price(pos.signal.signal, NoBook, last_bar.price),
                          last_bar.ts, EndOfDataReason, rp_cfg[1].fee_rate)
       IN  rp_st' = Some([st EXCEPT
               !.trades = IF NeedsFinalClose(st.open_trade, Len(st.price_series))
                          THEN AppendTrade(@, trade) ELSE @])
    /\ rp_pc' = "done"
    /\ UNCHANGED <<rp_cfg, rp_fetched, rp_log, coreVars, otherVars, laterVars,
                   drawdownVars, whaleVars, raceVars>>

(***************************************************************************)
(* analytics/engine.py: two engines, one cache directory, one key          *)
(*                                                                         *)
(* Each engine runs _fetch_data or prefetch_data for the same key, call    *)
(* after call; the steps of the two interleave.  A step is one system      *)
(* call or one provider round trip: os.path.exists with open and           *)
(* json.load; get_prices with get_books; open(path, "w"), which truncates  *)
(* the file; the end of json.dump with the close of the file.  The         *)
(* provider returns the same payload to both engines, so the file is whole *)
(* once every writer has closed it; while a writer has it open it may hold *)
(* a prefix of the payload, which json.load rejects.                       *)
(***************************************************************************)
MaxRaceCalls == 2

Engines == {1, 2}

Locked_while_written(file, self) == file.writers \ {self} # {}

\* neither _cache_load nor _cache_save takes a lock or writes to a temporary
\* file: no step waits for another engine
Locked(file, self) == FALSE

RaceInit ==
    /\ rc_pc = [e \in Engines |-> "idle"]
    /\ rc_file = [exists |-> FALSE, whole |-> FALSE, writers |-> {}]
    /\ rc_got = [e \in Engines |-> None]
    /\ rc_obs = [e \in Engines |-> [calls |-> 0, fetches |-> 0, writes |-> 0,
                                    during_write |-> FALSE]]

RaceIdle == rc_pc = None /\ rc_file = None /\ rc_got = None /\ rc_obs = None

\* run (through _fetch_data) or prefetch_data is called with the key
RaceCall(e) ==
    /\ rc_pc # None
    /\ rc_pc[e] = "idle"
    /\ rc_obs[e].calls < MaxRaceCalls
    /\ rc_pc' = [rc_pc EXCEPT ![e] = "load"]
    /\ rc_obs' = [rc_obs EXCEPT ![e].calls = @ + 1, ![e].during_write = FALSE]
    /\ \E op \in {"run", "prefetch_data"} :
         rc_got' = [rc_got EXCEPT ![e] = Some([op |-> op, found |-> "nothing"])]
    /\ UNCHANGED <<rc_file, coreVars, otherVars, laterVars, drawdownVars, whaleVars,
                   replayVars>>

\* _cache_load (lines 44-49, called at 376 and 347): no file is a miss, a
\* whole file a hit that ends the call, a prefix makes json.load raise
RaceLoad(e) ==
    /\ rc_pc # None
    /\ rc_pc[e] = "load"
    /\ ~ Locked(rc_file, e)
    /\ LET found == IF ~ rc_file.exists THEN "miss"
                    ELSE IF rc_file.whole THEN "hit"
                    ELSE "JSONDecodeError"
       IN  /\ rc_got' = [rc_got EXCEPT ![e] = Some([@[1] EXCEPT !.found = found])]
           /\ rc_pc' = [rc_pc EXCEPT ![e] = IF found = "miss" THEN "fetch" ELSE "idle"]
    /\ rc_obs' = [rc_obs EXCEPT ![e].during_write = rc_file.writers # {}]
    /\ UNCHANGED <<rc_file, coreVars, otherVars, laterVars, drawdownVars, whaleVars,
                   replayVars>>

\* get_prices and get_books (lines 381-382, 356-357)
RaceFetch(e) ==
    /\ rc_pc # None
    /\ rc_pc[e] = "fetch"
    /\ ~ Locked(rc_file, e)
    /\ rc_pc' = [rc_pc EXCEPT ![e] = "save"]
    /\ rc_obs' = [rc_obs EXCEPT ![e].fetches = @ + 1]
    /\ UNCHANGED <<rc_file, rc_got, coreVars, otherVars, laterVars, drawdownVars,
                   whaleVars, replayVars>>

\* _cache_save, lines 53-55: open(path, "w") creates or truncates the file
RaceOpen(e) ==
    /\ rc_pc # None
    /\ rc_pc[e] = "save"
    /\ ~ Locked(rc_file, e)
    /\ rc_pc' = [rc_pc EXCEPT ![e] = "writing"]
    /\ rc_file' = [exists |-> TRUE, whole |-> FALSE,
                   writers |-> rc_file.writers \cup {e}]
    /\ UNCHANGED <<rc_got, rc_obs, coreVars, otherVars, laterVars, drawdownVars,
                   whaleVars, replayVars>>

\* _cache_save, line 56: json.dump has written the payload and the file is
\* closed; with another writer left the file may or may not be whole
RaceClose(e) ==
    /\ rc_pc # None
    /\ rc_pc[e] = "writing"
    /\ ~ Locked(rc_file, e)
    /\ \E whole \in BOOLEAN :
         /\ rc_file.writers = {e} => whole
         /\ rc_file' = [rc_file EXCEPT !.whole = whole, !.writers = @ \ {e}]
    /\ rc_pc' = [rc_pc EXCEPT ![e] = "idle"]
    /\ rc_obs' = [rc_obs EXCEPT ![e].writes = @ + 1]
    /\ UNCHANGED <<rc_got, coreVars, otherVars, laterVars, drawdownVars, whaleVars,
                   replayVars>>

(***************************************************************************)
(* Specifications                                                          *)
(***************************************************************************)
StrategyIdle == LsIdle /\ MacdIdle /\ RsiIdle

IndicatorIdle == IndIdle /\ BookIdle

OtherIdle == GetIdle /\ StrategyIdle /\ IndicatorIdle

CoreIdle == EngineIdle /\ CacheIdle /\ KeyIdle

ExecutorIdle == SizeIdle /\ BalIdle /\ ExecIdle

LaterIdle == ScanIdle /\ WilsonIdle /\ TwinIdle /\ ExecutorIdle /\ WindowIdle

EarlierIdle == CoreIdle /\ OtherIdle

LastIdle == DrawdownIdle /\ WhaleIdle /\ RaceIdle /\ ReplayIdle

Init == EngineInit /\ CacheIdle /\ KeyIdle /\ OtherIdle /\ LaterIdle /\ LastIdle

Next == CheckData \/ BarExit \/ BarEntry \/ EndOfData

Spec == Init /\ [][Next]_vars

InitCache == EngineIdle /\ CacheInit /\ KeyIdle /\ OtherIdle /\ LaterIdle /\ LastIdle

NextCache == RunFetchData \/ PrefetchData

SpecCache == InitCache /\ [][NextCache]_vars

InitKey == EngineIdle /\ CacheIdle /\ KeyInit /\ OtherIdle /\ LaterIdle /\ LastIdle

NextKey == ComputeKeys

SpecKey == InitKey /\ [][NextKey]_vars

InitGet == CoreIdle /\ GetInit /\ StrategyIdle /\ IndicatorIdle /\ LaterIdle /\ LastIdle

NextGet == GetCall \/ GetAttempt

SpecGet == InitGet /\ [][NextGet]_vars

InitLongshot == CoreIdle /\ GetIdle /\ LsInit /\ MacdIdle /\ RsiIdle /\ IndicatorIdle /\ LaterIdle /\ LastIdle

NextLongshot == LsConstruct \/ LsOnStep

SpecLongshot == InitLongshot /\ [][NextLongshot]_vars

InitMacd == CoreIdle /\ GetIdle /\ LsIdle /\ MacdInit /\ RsiIdle /\ IndicatorIdle /\ LaterIdle /\ LastIdle

NextMacd == MacdRunBar

SpecMacd == InitMacd /\ [][NextMacd]_vars

InitRsi == CoreIdle /\ GetIdle /\ LsIdle /\ MacdIdle /\ RsiInit /\ IndicatorIdle /\ LaterIdle /\ LastIdle

NextRsi == RsiOnStep

SpecRsi == InitRsi /\ [][NextRsi]_vars

InitInd == CoreIdle /\ GetIdle /\ StrategyIdle /\ IndInit /\ BookIdle /\ LaterIdle /\ LastIdle

NextInd == ComputeIndicators

SpecInd == InitInd /\ [][NextInd]_vars

InitBook == CoreIdle /\ GetIdle /\ StrategyIdle /\ IndIdle /\ BookInit /\ LaterIdle /\ LastIdle

NextBook == ComputeBookIndicators

SpecBook == InitBook /\ [][NextBook]_vars

InitScan ==
    EarlierIdle /\ ScanInit /\ WilsonIdle /\ TwinIdle /\ ExecutorIdle /\ WindowIdle /\ LastIdle

NextScan == ScanOptimalEntries \/ ProfileDistance

SpecScan == InitScan /\ [][NextScan]_vars

InitWilson ==
    EarlierIdle /\ ScanIdle /\ WilsonInit /\ TwinIdle /\ ExecutorIdle /\ WindowIdle /\ LastIdle

NextWilson == ComputeWilson

SpecWilson == InitWilson /\ [][NextWilson]_vars

InitTwin ==
    EarlierIdle /\ ScanIdle /\ WilsonIdle /\ TwinInit /\ ExecutorIdle /\ WindowIdle /\ LastIdle

NextTwin == TwinRunBar \/ TwinReturn

SpecTwin == InitTwin /\ [][NextTwin]_vars

InitSize ==
    /\ EarlierIdle /\ ScanIdle /\ WilsonIdle /\ TwinIdle /\ WindowIdle
    /\ SizeInit /\ BalIdle /\ ExecIdle /\ LastIdle

NextSize == ComputeOrderSize

SpecSize == InitSize /\ [][NextSize]_vars

InitBal ==
    /\ EarlierIdle /\ ScanIdle /\ WilsonIdle /\ TwinIdle /\ WindowIdle
    /\ SizeIdle /\ BalInit /\ ExecIdle /\ LastIdle

NextBal == FetchUsdcBalance

SpecBal == InitBal /\ [][NextBal]_vars

InitExec ==
    /\ EarlierIdle /\ ScanIdle /\ WilsonIdle /\ TwinIdle /\ WindowIdle
    /\ SizeIdle /\ BalIdle /\ ExecInit /\ LastIdle

NextExec == ExStart \/ ExHold \/ ExGuardrail \/ ExScan \/ ExOrder \/ ExFinish

SpecExec == InitExec /\ [][NextExec]_vars

InitWindow ==
    EarlierIdle /\ ScanIdle /\ WilsonIdle /\ TwinIdle /\ ExecutorIdle /\ WindowInit /\ LastIdle

NextWindow == WindowBar

SpecWindow == InitWindow /\ [][NextWindow]_vars

InitDrawdown ==
    EarlierIdle /\ LaterIdle /\ DrawdownInit /\ WhaleIdle /\ RaceIdle /\ ReplayIdle

NextDrawdown == ComputeDrawdown

SpecDrawdown == InitDrawdown /\ [][NextDrawdown]_vars

InitWhale ==
    EarlierIdle /\ LaterIdle /\ DrawdownIdle /\ WhaleInit /\ RaceIdle /\ ReplayIdle

NextWhale == WhaleOnStep

SpecWhale == InitWhale /\ [][NextWhale]_vars

InitReplay ==
    EarlierIdle /\ LaterIdle /\ DrawdownIdle /\ WhaleIdle /\ RaceIdle /\ ReplayInit

NextReplay == ReplayStart \/ ReplayBar \/ ReplayReturn

SpecReplay == InitReplay /\ [][NextReplay]_vars

InitRace ==
    EarlierIdle /\ LaterIdle /\ DrawdownIdle /\ WhaleIdle /\ RaceInit /\ ReplayIdle

NextRace ==
    \E e \in Engines :
        RaceCall(e) \/ RaceLoad(e) \/ RaceFetch(e) \/ RaceOpen(e) \/ RaceClose(e)

SpecRace == InitRace /\ [][NextRace]_vars

(***************************************************************************)
(* Claims about BacktestEngine.run (checked under Spec)                    *)
(***************************************************************************)
ExitReasons == {"take_profit", "stop_loss", "timeout"}

TradesOf(id) == {k \in 1..Len(audit) : audit[k].pos.id = id}

\* C1: at most one position is open at any point of the replay: the
\* positions opened and not yet converted into a Trade number 0 or 1, exactly
\* one while the slot is occupied, and a position is opened only on a bar
\* whose slot was empty after exit processing.
C1_AtMostOneOpenPosition ==
    /\ opened - Len(trades) \in {0, 1}
    /\ pc \in {"bar", "entry"} =>
          (open_trade = None <=> opened = Len(trades))
    /\ entry_obs # None => entry_obs[1].slot_was_empty

\* a position was closed and the next one opened on the same bar
C1_Witness ==
    /\ pc = "bar"
    /\ opened = 2
    /\ Len(trades) = 1
    /\ open_trade # None
    /\ entry_obs[1].bar.ts = trades[1].exit_timestamp

\* C2: every position opened during run is converted into exactly one Trade
\* before run returns: no position ever has two Trades, and at the return the
\* Trades are as many as the positions opened, one per position, and they are
\* the result.
C2_EveryPositionOneTrade ==
    /\ \A id \in 1..opened : Cardinality(TradesOf(id)) <= 1
    /\ pc = "done" =>
          /\ Len(trades) = opened
          /\ Len(audit) = Len(trades)
          /\ \A id \in 1..opened : Cardinality(TradesOf(id)) = 1
          /\ result = Some(trades)

\* run returned after two positions: one closed by a trigger, one at the end
C2_Witness ==
    /\ pc = "done"
    /\ opened = 2
    /\ audit[1].in_loop
    /\ ~audit[2].in_loop

\* C3: in the result, the final Trade has exit_reason "end_of_data" iff a
\* position was still open after the last bar; "end_of_data" appears on no
\* other Trade, and every other exit_reason is take_profit, stop_loss or
\* timeout.
C3_EndOfDataIffOpenAtEnd ==
    pc = "done" =>
        /\ (/\ trades # <<>>
            /\ trades[Len(trades)].exit_reason = "end_of_data")
              <=> open_after_loop = Some(TRUE)
        /\ \A k \in 1..Len(trades) :
              \/ trades[k].exit_reason \in ExitReasons
              \/ k = Len(trades) /\ trades[k].exit_reason = "end_of_data"

\* a result whose first Trade left by a trigger and whose last by end_of_data
C3_Witness ==
    /\ pc = "done"
    /\ Len(trades) = 2
    /\ trades[1].exit_reason \in ExitReasons
    /\ trades[2].exit_reason = "end_of_data"
    /\ open_after_loop = Some(TRUE)

\* the other side of C3: nothing was open after the last bar
C3_WitnessClosed ==
    /\ pc = "done"
    /\ Len(trades) = 1
    /\ trades[1].exit_reason \in ExitReasons
    /\ open_after_loop = Some(FALSE)

\* C4: the number of Trades never exceeds the number of bars processed.
C4_TradesAtMostBars == Len(trades) <= n_bars

\* as many Trades as bars: every bar from the second closes a position and
\* opens the next, and the last position is closed at end of data
C4_Witness ==
    /\ pc = "done"
    /\ n_bars >= 3
    /\ Len(trades) = n_bars
    /\ trades[Len(trades)].exit_reason = "end_of_data"
    /\ trades[Len(trades)].exit_timestamp = trades[Len(trades) - 1].exit_timestamp

\* C5: on every bar processed while a position is open the exit decision is
\* taken on the directional move from the mid price of the entry bar (bar
\* price minus entry mid, negated for SELL), in the priority take_profit,
\* stop_loss, timeout, none.
C5_ExitDecisionFromEntryMid ==
    exit_check # None =>
        LET c == exit_check[1]
            entry_mid == c.pos.bar.price
            move == IF c.pos.dir = BUY THEN c.price - entry_mid
                    ELSE entry_mid - c.price
            expected ==
                IF move >= args.take_profit THEN Some("take_profit")
                ELSE IF move <= -args.stop_loss THEN Some("stop_loss")
                ELSE IF c.bars_held >= args.hold_periods THEN Some("timeout")
                ELSE None
        IN  c.outcome = expected

\* the scenario: warm-up at 0.50, a BUY on the bar that fills the window
\* (bought at the ask 0.52), then a bar at 0.80 with take_profit 0.08
C5_Witness ==
    /\ exit_check # None
    /\ args.history_window = 2
    /\ args.take_profit = 8
    /\ exit_check[1].pos.dir = BUY
    /\ exit_check[1].pos.bar.ts = 2
    /\ exit_check[1].pos.bar.price = 50
    /\ exit_check[1].pos.bar.book.asks = <<<<52, 10>>>>
    /\ exit_check[1].price = 80
    /\ exit_check[1].outcome = Some("take_profit")
    /\ trades[1].entry_price = 52

\* the price model of the claim: the best price of the side, the mid when
\* the side is empty
BestOrMid(side, mid) == IF side # <<>> THEN side[1][1] ELSE mid

\* C6: the execution price is the best price of the relevant book side
\* whenever that side is non-empty (BUY entry: best ask, BUY exit: best bid,
\* SELL entry: best bid, SELL exit: best ask) and the bar's mid price when
\* that side is empty.
C6_ExecutionPriceIsBestOrMid ==
    \A k \in 1..Len(audit) :
        LET a == audit[k]
            t == trades[k]
            entry_bar == a.pos.bar
        IN  IF a.pos.dir = BUY
            THEN /\ t.entry_price = BestOrMid(entry_bar.book.asks, entry_bar.price)
                 /\ t.exit_price = BestOrMid(a.exit_book.bids, a.exit_price)
            ELSE /\ t.entry_price = BestOrMid(entry_bar.book.bids, entry_bar.price)
                 /\ t.exit_price = BestOrMid(a.exit_book.asks, a.exit_price)

\* C7: for every Trade, entry_price and exit_price are the execution prices
\* of its entry and exit bars, gross_pnl is exit minus entry for BUY and
\* entry minus exit for SELL, and the net pnl is gross_pnl minus
\* fee_rate * (entry + exit) (here times 100, fee_rate in percent).
C7_TradePnl ==
    \A k \in 1..Len(audit) :
        LET a == audit[k]
            t == trades[k]
            entry == _entry_exec_price(a.pos.dir, a.pos.bar.book, a.pos.bar.price)
            exit == _exit_exec_price(a.pos.dir, a.exit_book, a.exit_price)
            gross == IF a.pos.dir = BUY THEN exit - entry ELSE entry - exit
        IN  /\ t.entry_price = entry
            /\ t.exit_price = exit
            /\ gross_pnl(t) = gross
            /\ pnl(t) = 100 * gross - t.fee_rate * (entry + exit)

\* a SELL sold at the bid 0.48 and bought back at the ask 0.52 with a 2 % fee
C7_Witness ==
    /\ Len(trades) >= 1
    /\ Len(audit) >= 1
    /\ trades[1].signal.signal = SELL
    /\ trades[1].fee_rate = 2
    /\ trades[1].entry_price = 48
    /\ trades[1].exit_price = 52
    /\ audit[1].pos.bar.price = 50
    /\ gross_pnl(trades[1]) = -4
    /\ pnl(trades[1]) = -600

\* C8: run raises whenever the fetched prices hold no non-empty series for
\* the token label, and then on_step was never invoked and no result is
\* returned; it raises in no other case.
C8_NoDataRaises ==
    /\ (pc # "call" /\ raw_prices # "series") =>
          /\ pc = "raised"
          /\ on_step_calls = 0
          /\ result = None
          /\ n_bars = 0
    /\ pc = "raised" => raw_prices # "series"

\* the label is present with an empty list
C8_Witness == pc = "raised" /\ raw_prices = "empty"

(***************************************************************************)
(* Claims about the cache (checked under SpecCache)                        *)
(***************************************************************************)
CallsFor(k) == {i \in 1..Len(calls) : calls[i].key = k}

\* the call fetched from the provider and both methods returned
Completed(i) ==
    /\ calls[i].get_prices = 1
    /\ calls[i].get_books = 1
    /\ calls[i].outcome # "provider_error"

\* the first call for its key that misses
FirstMiss(i) ==
    /\ ~calls[i].hit
    /\ \A j \in CallsFor(calls[i].key) : j < i => calls[j].hit

\* C9 (as stated): with a cache directory and a single engine, for any key
\* get_prices and get_books are each called exactly once by the first run or
\* prefetch_data that misses and zero times by every later call with the same
\* key; prefetch_data returns True exactly when it performed that fetch and
\* False on a hit.
C9_FetchedExactlyOncePerKey ==
    cache_dir =>
        \A i \in 1..Len(calls) :
            /\ FirstMiss(i) =>
                  /\ calls[i].get_prices = 1
                  /\ calls[i].get_books = 1
                  /\ \A j \in CallsFor(calls[i].key) :
                        j > i => calls[j].get_prices = 0 /\ calls[j].get_books = 0
            /\ calls[i].op = "prefetch" =>
                  /\ calls[i].value = Some(TRUE) <=> calls[i].get_prices = 1
                  /\ calls[i].hit => calls[i].value = Some(FALSE)

\* C9 (amended): with a cache directory and a single engine, a call that
\* hits calls neither provider method; a call that misses calls get_prices
\* once and get_books once unless get_prices raised; a call hits exactly when
\* an earlier call with the same key completed its fetch, so each key has at
\* most one completed fetch; prefetch_data returns True exactly when it
\* completed a fetch, False exactly on a hit, and raises otherwise.
C9_FetchedOncePerKeyOnceSaved ==
    cache_dir =>
        /\ \A i \in 1..Len(calls) :
              LET c == calls[i]
              IN  /\ c.hit => c.get_prices = 0 /\ c.get_books = 0
                  /\ ~c.hit =>
                        /\ c.get_prices = 1
                        /\ c.get_books \in {0, 1}
                        /\ c.get_books = 0 => c.outcome = "provider_error"
                  /\ c.hit <=> \E j \in CallsFor(c.key) : j < i /\ Completed(j)
                  /\ c.op = "prefetch" =>
                        /\ c.value = Some(TRUE) <=> Completed(i)
                        /\ c.value = Some(FALSE) <=> c.hit
                        /\ c.value = None <=> c.outcome = "provider_error"
        /\ \A k \in CacheKeys :
              Cardinality({i \in CallsFor(k) : Completed(i)}) <= 1

\* a fetch that raised, then a run that fetched and saved, then a prefetch of
\* a request ten seconds later that hit
C9_Witness ==
    /\ cache_dir
    /\ Len(calls) = 3
    /\ calls[1].key = calls[2].key
    /\ calls[2].key = calls[3].key
    /\ calls[1].outcome = "provider_error"
    /\ calls[2].op = "run"
    /\ Completed(2)
    /\ calls[3].op = "prefetch"
    /\ calls[3].req # calls[2].req
    /\ calls[3].hit
    /\ calls[3].value = Some(FALSE)

(***************************************************************************)
(* Claims about _cache_key (checked under SpecKey)                         *)
(***************************************************************************)
\* both timestamps are numbers, or both are text
SameRepresentation(a, b) == a.kind = b.kind

SameBuckets(r1, r2) ==
    /\ r1.market_id = r2.market_id
    /\ r1.resolution = r2.resolution
    /\ MinuteBucket(r1.start_ts) = MinuteBucket(r2.start_ts)
    /\ MinuteBucket(r1.end_ts) = MinuteBucket(r2.end_ts)

C11_RetryOnceOnRateLimit ==
    g_pc = "done" =>
        /\ Len(g_resps) <= 2
        /\ ~ g_retry => Len(g_resps) = 1
        /\ (g_retry /\ g_resps[1].status_code = 429) =>
               /\ Len(g_waits) = 1
               /\ g_resps[1].retry_after = None => g_waits[1] = 61
               /\ Len(g_resps) = 2
               /\ g_resps[2].status_code = 429 =>
                      g_outcome = Some(Raised("PMDError", 429))
        /\ \A i \in 1..Len(g_resps) :
               (g_resps[i].status_code # 429 /\ ~ ResponseOk(g_resps[i])) =>
                   /\ i = Len(g_resps)
                   /\ g_outcome = Some(Raised("PMDError", g_resps[i].status_code))

(***************************************************************************)
(* Claims about LongshotBiasStrategy (checked under SpecLongshot)          *)
(***************************************************************************)
\* the zone the strategy should remember when call i starts: none before the
\* first call and after an out-of-band call, else the zone of the last price
RememberedZone(i) ==
    IF i = 1 THEN None
    ELSE IF OutOfBand(ls_self[1], ls_calls[i - 1].price) THEN None
    ELSE Some(ZoneOf(ls_self[1], ls_calls[i - 1].price))

\* C12: an on_step call with an in-band price emits a signal exactly when
\* the zone of its price is longshot or favorite and differs from the zone
\* remembered from the previous call; the signal is SELL for longshot and BUY
\* for favorite.
C12_SignalIffZoneTransition ==
    ls_self # None =>
        \A i \in 1..Len(ls_calls) :
            LET call == ls_calls[i]
                zone == ZoneOf(ls_self[1], call.price)
            IN  ~ OutOfBand(ls_self[1], call.price) =>
                    /\ call.signal # None <=>
                           (zone \in {"longshot", "favorite"} /\ Some(zone) # RememberedZone(i))
                    /\ call.signal # None =>
                           call.signal = Some(IF zone = "longshot" THEN SELL ELSE BUY)

\* a SELL on entering the longshot zone, then no signal on staying in it
C12_Witness ==
    /\ Len(ls_calls) >= 3
    /\ ls_calls[1].signal = Some(BUY)
    /\ ls_calls[2].signal = Some(SELL)
    /\ ls_calls[3].signal = None
    /\ ZoneOf(ls_self[1], ls_calls[3].price) = "longshot"

\* C13: an on_step call with an out-of-band price emits nothing and resets
\* the remembered zone, so the next in-band call in the longshot or favorite
\* zone emits even when the price was in that zone before it left the band.
C13_OutOfBandResetsZone ==
    ls_self # None =>
        \A i \in 1..Len(ls_calls) :
            OutOfBand(ls_self[1], ls_calls[i].price) =>
                /\ ls_calls[i].signal = None
                /\ i = Len(ls_calls) => ls_self[1]._prev_zone = None
                /\ (/\ i < Len(ls_calls)
                    /\ ~ OutOfBand(ls_self[1], ls_calls[i + 1].price)
                    /\ ZoneOf(ls_self[1], ls_calls[i + 1].price) # "neutral") =>
                       ls_calls[i + 1].signal # None

\* favorite, out of the band, favorite again: both in-band calls emit BUY
C13_Witness ==
    /\ Len(ls_calls) = 3
    /\ ls_calls[1].signal = Some(BUY)
    /\ OutOfBand(ls_self[1], ls_calls[2].price)
    /\ ls_calls[3].price = ls_calls[1].price
    /\ ls_calls[3].signal = Some(BUY)

\* C14: constructing the strategy with longshot_threshold >= favorite_threshold
\* fails with an error and yields no object; an object that is built carries
\* the thresholds it was given.
C14_BadThresholdsRejected ==
    ls_pc \notin {"new", "idle"} =>
        /\ ls_args.longshot_threshold >= ls_args.favorite_threshold =>
               ls_pc = "ValueError" /\ ls_self = None
        /\ ls_self # None =>
               /\ ls_self[1].longshot_threshold = ls_args.longshot_threshold
               /\ ls_self[1].favorite_threshold = ls_args.favorite_threshold
               /\ ls_self[1].longshot_threshold < ls_self[1].favorite_threshold

C14_Witness ==
    /\ ls_pc = "ValueError"
    /\ ls_args.longshot_threshold = ls_args.favorite_threshold

(***************************************************************************)
(* Claims about MACDMomentumStrategy in a run (checked under SpecMacd)     *)
(***************************************************************************)
\* C15: a BUY is emitted only on a bar whose MACD histogram is > 0 while the
\* histogram of the bar immediately before it was <= 0, a SELL only where it
\* is < 0 and the bar before had >= 0; nothing is emitted on the first
\* evaluated bar or on the bar right after an out-of-band price.
C15_SignalOnlyOnSignChange ==
    \A i \in 1..Len(mm_log) :
        LET b == mm_log[i]
        IN  b.signal # None =>
                /\ \E j \in 1..(i - 1) : mm_log[j].called
                /\ mm_log[i - 1].price >= mm_cfg.min_price
                /\ mm_log[i - 1].price <= mm_cfg.max_price
                /\ mm_log[i - 1].histogram # None
                /\ b.signal = Some(BUY) =>
                       /\ QLt(QZero, b.histogram[1])
                       /\ QLe(mm_log[i - 1].histogram[1], QZero)
                /\ b.signal = Some(SELL) =>
                       /\ QLt(b.histogram[1], QZero)
                       /\ QLe(QZero, mm_log[i - 1].histogram[1])

(***************************************************************************)
(* Claims about RSIMeanReversionStrategy (checked under SpecRsi)           *)
(***************************************************************************)
\* the signal of the RSI rule with the trend filter: BUY below the oversold
\* threshold, SELL above the overbought threshold, unless the trend blocks it
RsiRuleSignal ==
    LET self == rs_in.self
        r == rsi(rs_in.price_history, self.rsi_period)
        slope == trend_slope(rs_in.price_history, self.trend_lookback)
        strong_up == self.trend_filter /\ slope # None /\ slope[1] >= self.trend_threshold
        strong_down == self.trend_filter /\ slope # None /\ slope[1] <= -self.trend_threshold
    IN  IF r = None THEN None
        ELSE IF QLt(r[1], QInt(self.oversold_threshold))
             THEN (IF strong_down THEN None ELSE Some(BUY))
        ELSE IF QLt(QInt(self.overbought_threshold), r[1])
             THEN (IF strong_up THEN None ELSE Some(SELL))
        ELSE None

RsiPrice == rs_in.price_history[Len(rs_in.price_history)]

RsiInBand == RsiPrice >= rs_in.self.min_price /\ RsiPrice <= rs_in.self.max_price

NoTrailingLoss ==
    \A i \in (Len(ind_in.prices) - ind_in.period + 1)..Len(ind_in.prices) :
        ind_in.prices[i] >= ind_in.prices[i - 1]

C18_ShortHistoryGivesNone ==
    ind_out # None =>
        /\ Len(ind_in.prices) < ind_in.period + 1 =>
               /\ ind_out[1].rsi = None
               /\ ind_out[1].momentum = None
               /\ ind_out[1].realized_vol = None
        /\ Len(ind_in.prices) < ind_in.period => ind_out[1].bollinger = None
        /\ Len(ind_in.prices) < ind_in.period + ind_in.signal_period =>
               ind_out[1].macd = None

\* a list one short of what rsi needs, long enough for bollinger
C18_Witness ==
    /\ ind_out # None
    /\ Len(ind_in.prices) = ind_in.period
    /\ ind_out[1].momentum = None
    /\ ind_out[1].bollinger # None

\* the variance of xs about its mean with the given divisor
VarianceOver(xs, divisor) ==
    QDiv(SumSqDev(xs, QDiv(QSum(xs), QInt(Len(xs)))), QInt(divisor))

BollingerWindow == QSeq(Suffix(ind_in.prices, ind_in.period))

LogReturnsOfWindow == log_returns(Suffix(ind_in.prices, ind_in.period + 1), 2)

ASideIsEmpty == bk_in.book.bids = <<>> \/ bk_in.book.asks = <<>>

\* C20 as stated: when a side of the book is empty book_imbalance returns
\* 0.5 and book_pressure returns 0.0.
C20_NeutralWhenSideEmpty ==
    (bk_out # None /\ ASideIsEmpty) =>
        /\ bk_out[1].book_imbalance = Q(1, 2)
        /\ bk_out[1].book_pressure = QZero

\* C20, amended: when a side is empty book_pressure returns 0.0, and
\* book_imbalance returns 0.5 only when the other side carries no notional:
\* it returns 1.0 when only the bids carry notional and 0.0 when only the
\* asks do.
C20_NeutralWhenNoNotional ==
    (bk_out # None /\ ASideIsEmpty) =>
        /\ bk_out[1].book_pressure = QZero
        /\ bk_out[1].book_imbalance =
               IF Notional(bk_in.book.bids) > 0 THEN QInt(1)
               ELSE IF Notional(bk_in.book.asks) > 0 THEN QZero
               ELSE Q(1, 2)

\* bids with notional and no asks
C20_Witness ==
    /\ bk_out # None
    /\ bk_in.book.asks = <<>>
    /\ Notional(bk_in.book.bids) > 0
    /\ bk_out[1].book_imbalance = QInt(1)
    /\ bk_out[1].book_pressure = QZero

(***************************************************************************)
(* Claims about scan_optimal_entries and EntryProfile.distance (checked    *)
(* under SpecScan)                                                         *)
(***************************************************************************)
\* the profile of the scan, when it returned one
ScanProfile == sc_out[1].profile

OneSampleDistance ==
    sc_dist # None /\ sc_out[1].kind = "profile" /\ ScanProfile.n_samples = 1

\* C21 (as stated): the distance of the single qualifying bar's own feature
\* vector from a profile built from that bar alone is 0.0.
C21_OwnVectorAtDistanceZero ==
    OneSampleDistance => sc_dist[1].distance = ZeroStd

\* C21 (amended): a profile built from exactly one qualifying bar has std 0.0
\* in every column, so distance skips every feature and returns
\* float("inf"), for that bar's own feature vector too.
C21_OneSampleDistanceIsInf ==
    OneSampleDistance =>
        /\ \A j \in 1..Len(FEATURE_NAMES) : ScanProfile.std[j] = ZeroStd
        /\ sc_dist[1].distance = Inf

\* the single qualifying bar has features that are present, and the distance
\* of its own vector has been taken
C21_Witness ==
    /\ OneSampleDistance
    /\ sc_dist[1].row = 1
    /\ \E j \in 1..Len(FEATURE_NAMES) :
          /\ sc_out[1].rows[1][j] # None
          /\ ScanProfile.mean[j] = sc_out[1].rows[1][j][1]

\* the price of 0-based bar i
ScanPrice(i) == sc_in.prices[i + 1]

\* some bar among the next forward_window bars of the series moved by at
\* least min_gain in the direction of the signal
MovesWithin(i) ==
    \E k \in 1..sc_in.forward_window :
        /\ i + k < Len(sc_in.prices)
        /\ IF sc_in.signal = BUY
           THEN ScanPrice(i + k) >= ScanPrice(i) + sc_in.min_gain
           ELSE ScanPrice(i + k) <= ScanPrice(i) - sc_in.min_gain

MovingBars == {i \in 0..(Len(sc_in.prices) - 1) : MovesWithin(i)}

\* the bars the loop examines
ExaminedBars ==
    {i \in 0..(Len(sc_in.prices) - 1) :
        sc_in.indicator_window <= i /\ i < Len(sc_in.prices) - sc_in.forward_window}

\* the scan included exactly the bars of B, with n_samples = |B|, and
\* raised when B is empty
ScanIncludesExactly(B) ==
    /\ {sc_out[1].bars[k] : k \in 1..Len(sc_out[1].bars)} = B
    /\ Len(sc_out[1].bars) = Cardinality(B)
    /\ IF B = {} THEN sc_out[1].kind = "ValueError"
       ELSE /\ sc_out[1].kind = "profile"
            /\ ScanProfile.n_samples = Cardinality(B)
            /\ Len(sc_out[1].rows) = Cardinality(B)

ScanOfDirection == sc_out # None /\ sc_in.signal \in {BUY, SELL}

SurdLe(x, y) ==
    ~ SurdGt(Surd(QSub(x[1], y[1]), QSub(x[2], y[2]),
                  IF x[3] = QZero THEN y[3] ELSE x[3]), QZero)

WilsonReturned == wl_out # None /\ wl_out[1][1] = "return"

\* the interval returned
WilsonInterval == wl_out[1][2]

\* C23: wilson_ci(0, 0) returns the interval [0, 1], and for n >= 1 and
\* 0 <= wins <= n the call returns bounds with 0 <= lower <= upper <= 1.
C23_WilsonBoundsOrdered ==
    wl_out # None =>
        /\ (wl_in.n = 0 /\ wl_in.wins = 0 =>
               /\ WilsonReturned
               /\ WilsonInterval = ConfidenceInterval(Surd(QZero, QZero, QZero),
                                                      Surd(QInt(1), QZero, QZero), 0))
        /\ (wl_in.n >= 1 /\ wl_in.wins <= wl_in.n =>
               /\ WilsonReturned
               /\ ~ SurdLt(WilsonInterval.lower, QZero)
               /\ SurdLe(WilsonInterval.lower, WilsonInterval.upper)
               /\ ~ SurdGt(WilsonInterval.upper, QInt(1)))

\* an interval strictly inside [0, 1] for a win rate strictly between 0 and 1
C23_Witness ==
    /\ WilsonReturned
    /\ wl_in.n >= 2 /\ 0 < wl_in.wins /\ wl_in.wins < wl_in.n
    /\ wl_in.z = Q(49, 25)
    /\ SurdGt(WilsonInterval.lower, QZero)
    /\ SurdLt(WilsonInterval.upper, QInt(1))
    /\ ~ SurdLe(WilsonInterval.upper, WilsonInterval.lower)

\* the interval of an empty sample
C23_WitnessEmpty == wl_out # None /\ wl_in.n = 0 /\ wl_in.wins = 0

SizeUsesKelly == GetEnv(sz_in.env.use_kelly, "1") = "1"
SizeMinNotional == GetEnv(sz_in.env.min_notional, QInt(2))
SizeMaxNotional == GetEnv(sz_in.env.max_notional, QInt(25))

\* the bankroll the claim prescribes: the argument, and LONGSHOT_BANKROLL_USD
\* (default 500) only when the argument is None
SizeBankroll ==
    IF sz_in.bankroll_usd # None THEN sz_in.bankroll_usd[1]
    ELSE IF sz_in.env.bankroll_usd # None THEN sz_in.env.bankroll_usd[1]
    ELSE QInt(500)

\* the call with LONGSHOT_BANKROLL_USD set to v instead
SizeWithEnvBankroll(v) ==
    _compute_order_size(sz_in.prices[1], sz_in.prices[2], sz_in.fallback_size,
                        sz_in.bankroll_usd,
                        [sz_in.env EXCEPT !.bankroll_usd = v])

\* C25: with Kelly enabled and a bankroll > 0 the method is "kelly" and, for
\* min <= max, the notional lies in [LONGSHOT_MIN_NOTIONAL_USD,
\* LONGSHOT_MAX_NOTIONAL_USD]; with Kelly disabled or a bankroll <= 0 the
\* method is "fixed" and size is fallback_size.  The bankroll is the
\* bankroll_usd argument when it is given, whatever LONGSHOT_BANKROLL_USD
\* holds, and the environment's value only when the argument is None.
C25_SizingMethodAndClamp ==
    sz_out # None =>
        /\ IF SizeUsesKelly /\ QLt(QZero, SizeBankroll)
           THEN /\ sz_out[1].method = "kelly"
                /\ QLe(SizeMinNotional, SizeMaxNotional) =>
                       /\ QLe(SizeMinNotional, sz_out[1].notional_usd)
                       /\ QLe(sz_out[1].notional_usd, SizeMaxNotional)
           ELSE /\ sz_out[1].method = "fixed"
                /\ sz_out[1].size = sz_in.fallback_size
        /\ sz_in.bankroll_usd # None =>
               \A v \in SizeEnvBankrolls : SizeWithEnvBankroll(v) = sz_out[1]

\* a Kelly notional strictly inside the clamp, computed from an explicit
\* bankroll while LONGSHOT_BANKROLL_USD holds another value
C25_Witness ==
    /\ sz_out # None
    /\ sz_out[1].method = "kelly"
    /\ sz_in.bankroll_usd # None /\ sz_in.env.bankroll_usd # None
    /\ sz_in.bankroll_usd # sz_in.env.bankroll_usd
    /\ QLt(SizeMinNotional, sz_out[1].notional_usd)
    /\ QLt(sz_out[1].notional_usd, SizeMaxNotional)

\* the environment's bankroll decides when the argument is None: the fixed
\* method under LONGSHOT_BANKROLL_USD = 0
C25_WitnessEnvBankroll ==
    /\ sz_out # None
    /\ SizeUsesKelly
    /\ sz_in.bankroll_usd = None /\ sz_in.env.bankroll_usd = Some(QZero)
    /\ sz_out[1].method = "fixed"

\* some value inside the JSON value j is an integer beyond the range of a
\* float
RECURSIVE HasBigInt(_)
HasBigInt(j) ==
    CASE j[1] = "bigint" -> TRUE
      [] j[1] = "list" -> \E k \in 1..Len(j[2]) : HasBigInt(j[2][k])
      [] j[1] = "dict" -> \E k \in 1..Len(j[2]) : HasBigInt(j[2][k][2])
      [] OTHER -> FALSE

\* C26: _fetch_usdc_balance never raises: it returns a float or None
\* whatever get_balances does and whatever the response holds, and None when
\* get_balances raises or the response is not a dict.
C26_FetchNeverRaises ==
    fb_out # None =>
        /\ fb_out[1][1] = "return"
        /\ (fb_in[1] = "raise" \/ fb_in[2][1] # "dict" => fb_out[1][2] = None)

\* what does hold: the call returns whenever no value of the response is an
\* integer too large for a float
C26_FetchReturnsWithoutBigInt ==
    fb_out # None /\ (fb_in[1] = "ok" => ~ HasBigInt(fb_in[2])) =>
        fb_out[1][1] = "return"

\* an unparseable flat value is passed over and a later candidate is parsed
C26_WitnessSkipsUnparseable ==
    /\ fb_out # None
    /\ fb_in[1] = "ok" /\ fb_in[2][1] = "dict"
    /\ DictGet(fb_in[2], "USDC") = JStr(<<"n", "a", "n", "a">>)
    /\ fb_out[1] = <<"return", Some(Q(17, 2))>>

(***************************************************************************)
(* Claims about run_once (checked under SpecExec)                          *)
(***************************************************************************)
\* a cycle has started, and the latest cycle has ended
CycleStarted == ex_obs # NoObs
CycleEnded == ex_pc = "idle" /\ ex_obs.ret # None

\* the latest cycle fetched the balance and the fetch returned
BalanceFetched(b) ==
    ex_obs.fetched = 1 /\ ex_obs.balance = b /\ ex_obs.ret # Some(<<"raise", "OverflowError">>)

\* the latest cycle ended at the balance guard: it returned 0 having closed,
\* checked, scanned and ordered nothing
SkippedAtGuard ==
    /\ CycleEnded
    /\ ex_obs.ret = Some(<<"return", 0>>)
    /\ ex_obs.warnings = <<"balance_below_min_notional">>
    /\ ex_obs.closed = <<>> /\ ex_obs.breach = None
    /\ ~ ex_obs.scanned /\ ex_obs.sizing = <<>>
    /\ ex_obs.placed = <<>> /\ ex_obs.opened = <<>>

\* the latest cycle went past the balance guard into the loop over the open
\* positions
PassedGuard ==
    /\ "balance_below_min_notional" \notin {ex_obs.warnings[k] : k \in 1..Len(ex_obs.warnings)}
    /\ \/ ex_pc # "idle"
       \/ ex_obs.breach # None
       \/ ex_obs.ret = Some(<<"raise", "Exception">>)

\* every order of the latest cycle was sized from the bankroll b
SizedFrom(b) ==
    \A k \in 1..Len(ex_obs.sizing) :
        ex_obs.sizing[k].decision =
            _compute_order_size(Q(30, 100), Q(70, 100), QInt(5), Some(b),
                                [SizingEnv EXCEPT !.bankroll_usd = None])

\* C27: in live mode a fetched balance below LONGSHOT_MIN_NOTIONAL_USD makes
\* run_once return 0 without scanning candidates or placing an order; a
\* balance equal to or above the minimum does not skip the cycle, and a
\* failed fetch (None) does not skip it either: the orders are then sized
\* from the LONGSHOT_BANKROLL_USD bankroll.
C27_LowBalanceSkipsCycle ==
    ex_obs.fetched = 1 =>
        /\ \A b \in {1, 2, 10} :
              BalanceFetched(Some(b)) =>
                  IF b < ExecSettings.min_notional
                  THEN SkippedAtGuard
                  ELSE PassedGuard /\ SizedFrom(QInt(b))
        /\ BalanceFetched(None) =>
              /\ PassedGuard
              /\ ex_obs.warnings = <<"balance_fetch_failed">>
              /\ SizedFrom(SizingEnv.bankroll_usd[1])

\* a cycle skipped at the guard while the state file holds an open position
C27_Witness ==
    /\ BalanceFetched(Some(1))
    /\ SkippedAtGuard
    /\ ex_obs.saved
    /\ ex_file # None /\ ex_file[1].open_positions # <<>>

\* a cycle whose balance is exactly the minimum placed an order
C27_WitnessAtMinimum ==
    /\ BalanceFetched(Some(ExecSettings.min_notional))
    /\ CycleEnded
    /\ ex_obs.placed # <<>>

\* a cycle whose fetch failed placed an order sized from the environment
C27_WitnessFallback ==
    /\ BalanceFetched(None)
    /\ CycleEnded
    /\ ex_obs.placed # <<>>
    /\ ex_obs.sizing[1].bankroll_usd = None

\* C28: with DRY_RUN = 1 no cycle of run_once calls _fetch_usdc_balance,
\* constructs a trading client or places an order, whatever the candidates.
C28_DryRunTouchesNoAccount ==
    CycleStarted /\ ex_env.dry_run =>
        /\ ex_obs.fetched = 0
        /\ ex_obs.traders = 0
        /\ ex_obs.placed = <<>>

\* a dry-run cycle, not the first, that went through its candidates and
\* recorded a position without an order
C28_Witness ==
    /\ ex_env.dry_run
    /\ ex_cycles >= 2
    /\ CycleEnded
    /\ ex_obs.scanned
    /\ ex_obs.opened # <<>>
    /\ ex_obs.placed = <<>>
    /\ ex_obs.fetched = 0

(***************************************************************************)
(* Claims about the strategy calls and the windows of BacktestEngine.run   *)
(* (checked under Spec and SpecWindow)                                     *)
(***************************************************************************)
\* the step is an on_step call
OnStepCalled == on_step_calls' = on_step_calls + 1

\* C29: on_step is called at most once per bar, and only on a bar on which,
\* after the exit processing, no position is open and the price window holds
\* history_window entries: never during the first history_window - 1 bars
\* and never while a position remains open.  A BUY or SELL it returns opens
\* a position on that same bar (a None or HOLD result opens none).
C29_OnStepOnlyWhenFlatAndFull ==
    [][/\ on_step_calls' \in {on_step_calls, on_step_calls + 1}
       /\ pc' = "entry" => n_bars' = n_bars + 1 /\ on_step_calls' = on_step_calls
       /\ pc = "entry" => pc' = "bar" /\ n_bars' = n_bars
       /\ OnStepCalled =>
             /\ pc = "entry"
             /\ open_trade = None
             /\ Len(price_window) = args.history_window
             /\ n_bars >= args.history_window
             /\ on_step_result' # None
             /\ IF on_step_result'[1] \in {BUY, SELL}
                THEN /\ open_trade' # None
                     /\ open_trade'[1].signal.timestamp = bar[1].ts
                     /\ open_trade'[1].entry_mid = bar[1].price
                     /\ opened' = opened + 1
                ELSE open_trade' = None /\ opened' = opened
       /\ pc = "entry" /\ ~ OnStepCalled =>
             /\ open_trade # None \/ Len(price_window) < args.history_window
             /\ on_step_result' = None
             /\ opened' = opened]_vars

\* on one bar a position was closed by an exit rule and on_step, called
\* after that, opened the next one; the window holds two bars
C29_Witness ==
    /\ pc = "bar"
    /\ args.history_window = 2
    /\ exit_check # None /\ exit_check[1].outcome # None
    /\ on_step_result \in {Some(BUY), Some(SELL)}
    /\ open_trade # None /\ open_trade[1].signal.timestamp = n_bars
    /\ on_step_calls = 2

\* the bars read so far, the latest k of them
LatestBars(k) == SubSeq(wn_seen, Len(wn_seen) - k + 1, Len(wn_seen))

WindowSize == IF Len(wn_seen) < wn_hw THEN Len(wn_seen) ELSE wn_hw

\* C30: after the append-and-evict step of the k-th bar both windows have
\* length min(k, history_window) and hold the latest bars, oldest first and
\* the current bar last: what has been evicted is the oldest.
C30_WindowsHoldLatestBars ==
    Len(wn_seen) >= 1 =>
        /\ Len(wn_prices) = WindowSize
        /\ Len(wn_books) = WindowSize
        /\ \A i \in 1..WindowSize :
              /\ wn_prices[i] = LatestBars(WindowSize)[i].price
              /\ wn_books[i] = LatestBars(WindowSize)[i].book

\* two bars have been evicted from a window of two, and the bars kept differ
\* from the bars evicted
C30_Witness ==
    /\ wn_hw = 2
    /\ Len(wn_seen) = 4
    /\ wn_prices = <<wn_seen[3].price, wn_seen[4].price>>
    /\ wn_seen[1].price # wn_seen[3].price
    /\ wn_seen[2].book # wn_seen[4].book
    /\ wn_prices[1] # wn_prices[2]

(***************************************************************************)
(* Claims about the disk cache (checked under SpecCache)                   *)
(***************************************************************************)
\* the i-th call is a run that failed with "No price data for token label"
DataUnavailable(i) == calls[i].op = "run" /\ calls[i].outcome = "no_data"

\* C38: a run that fails with the data-unavailable error leaves the disk
\* cache unchanged: a failed run that missed leaves no entry under its key,
\* and every later identical request fetches from the provider again.
C38_FailedRunLeavesCacheUnchanged ==
    \A i \in 1..Len(calls) :
        DataUnavailable(i) =>
            /\ (i = Len(calls) /\ ~ calls[i].hit => cache[calls[i].key] = None)
            /\ \A j \in (i + 1)..Len(calls) :
                  calls[j].req = calls[i].req =>
                      calls[j].get_prices = 1 /\ calls[j].get_books = 1

\* C38 as the code has it: with a cache directory, the payload of a run that
\* fails with the data-unavailable error is in the cache under the run's key
\* when the run raises, and every later call with that key hits, calls the
\* provider zero times and, if a run, fails in the same way; without a
\* cache directory nothing is ever written.
C38_FailedRunIsCached ==
    /\ ~ cache_dir => \A k \in CacheKeys : cache[k] = None
    /\ \A i \in 1..Len(calls) :
          DataUnavailable(i) /\ cache_dir =>
              /\ cache[calls[i].key] # None
              /\ NoPriceData(cache[calls[i].key][1].prices)
              /\ \A j \in (i + 1)..Len(calls) :
                    calls[j].key = calls[i].key =>
                        /\ calls[j].hit
                        /\ calls[j].get_prices = 0 /\ calls[j].get_books = 0
                        /\ calls[j].op = "run" => calls[j].outcome = "no_data"

\* a run misses, fetches a payload without the label's prices and fails; the
\* next run of the same request hits and fails again
C38_Witness ==
    /\ cache_dir
    /\ Len(calls) = 2
    /\ DataUnavailable(1) /\ ~ calls[1].hit /\ calls[1].get_prices = 1
    /\ calls[2].req = calls[1].req
    /\ DataUnavailable(2) /\ calls[2].hit /\ calls[2].get_prices = 0

(***************************************************************************)
(* Claims about BacktestEngine.run (checked under Spec)                    *)
(***************************************************************************)
EmptySides(book) == book.bids = <<>> /\ book.asks = <<>>

\* the k-th Trade was entered and exited on bars whose books have no level
\* on either side, so both execution prices are the mid prices
TradedAtMid(k) ==
    EmptySides(audit[k].pos.bar.book) /\ EmptySides(audit[k].exit_book)

\* C36: a Trade entered and exited on bars with empty books (all Trades, when
\* every bar's book is empty) has gross_pnl >= take_profit if its
\* exit_reason is take_profit and gross_pnl <= -stop_loss if it is stop_loss.
C36_ThresholdExitsReachThresholds ==
    \A k \in 1..Len(trades) :
        k <= Len(audit) /\ TradedAtMid(k) =>
            /\ trades[k].exit_reason = "take_profit" =>
                   gross_pnl(trades[k]) >= args.take_profit
            /\ trades[k].exit_reason = "stop_loss" =>
                   gross_pnl(trades[k]) <= -args.stop_loss

\* a SELL that took its profit and a SELL that was stopped out, on three
\* bars with empty books
C36_Witness ==
    /\ Len(trades) = 2 /\ Len(audit) = 2
    /\ TradedAtMid(1) /\ TradedAtMid(2)
    /\ trades[1].signal.signal = SELL /\ trades[1].exit_reason = "take_profit"
    /\ gross_pnl(trades[1]) = args.take_profit
    /\ trades[2].signal.signal = SELL /\ trades[2].exit_reason = "stop_loss"
    /\ gross_pnl(trades[2]) < -args.stop_loss

(***************************************************************************)
(* Claims about BacktestResult.max_drawdown (checked under SpecDrawdown)   *)
(***************************************************************************)
\* the cumulative net pnl after the first k trades
RECURSIVE CumulativePnl(_, _)
CumulativePnl(trs, k) == IF k = 0 THEN 0 ELSE CumulativePnl(trs, k - 1) + pnl(trs[k])

MaxOf(S) == CHOOSE x \in S : \A y \in S : y <= x

\* the highest cumulative net pnl over the prefixes of length 0..k
PeakPnl(trs, k) == MaxOf({CumulativePnl(trs, j) : j \in 0..k})

\* C33: max_drawdown is never negative, is 0 for an empty trade list, and is
\* the maximum over the prefixes of the trade sequence of the highest
\* cumulative net pnl reached so far (the baseline 0 included) minus the
\* cumulative net pnl at that prefix.
C33_MaxDrawdownIsLargestFallFromPeak ==
    dd_out # None =>
        /\ dd_out[1] >= 0
        /\ dd_in[1] = <<>> => dd_out[1] = 0
        /\ dd_out[1] = MaxOf({PeakPnl(dd_in[1], k) - CumulativePnl(dd_in[1], k) :
                                 k \in 0..Len(dd_in[1])})

\* a loss before any gain counts from the baseline, and a later, deeper fall
\* from a new peak replaces it: -5.00, +8.00, -11.80, 0 has max_drawdown 11.80
C33_Witness ==
    /\ dd_out # None /\ Len(dd_in[1]) = 4
    /\ [k \in 1..4 |-> pnl(dd_in[1][k])] = <<-500, 800, -1180, 0>>
    /\ dd_out[1] = 1180

(***************************************************************************)
(* Claims about WhaleWatcherStrategy (checked under SpecWhale)             *)
(***************************************************************************)
\* C31: with imbalance_confirm enabled, on_step emits BUY only if the bid
\* share of the total book notional of the current bar is strictly greater
\* than that of the bar of the immediately preceding call, and SELL only if
\* it is strictly smaller.
C31_SignalFollowsShiftSincePreviousBar ==
    wh_last # None /\ wh_self[1].imbalance_confirm =>
        /\ wh_last[1].signal = Some(BUY) =>
              /\ wh_last[1].prev_book # None
              /\ QLt(Imbalance(wh_last[1].prev_book[1]), Imbalance(wh_last[1].book))
        /\ wh_last[1].signal = Some(SELL) =>
              /\ wh_last[1].prev_book # None
              /\ QLt(Imbalance(wh_last[1].book), Imbalance(wh_last[1].prev_book[1]))

(***************************************************************************)
(* Claims about BacktestEngine.run over a fetched series (checked under    *)
(* SpecReplay)                                                             *)
(***************************************************************************)
\* the bar on which the position held at the exit check of bar k was opened
EntryBarOf(k) == rp_log[k - 1].entry

HoldLimit == IF rp_cfg[1].hold_periods > 1 THEN rp_cfg[1].hold_periods ELSE 1

\* C34: at each exit check bars_held is the number of bars since the entry
\* bar, no position survives an exit check at which bars_held >=
\* hold_periods, and so a position opened on bar i is no longer open after
\* bar i + max(hold_periods, 1).
C34_PositionClosedWithinHoldPeriods ==
    \A k \in 1..Len(rp_log) :
        /\ rp_log[k].held # None =>
              /\ rp_log[k].held[1] = k - EntryBarOf(k)
              /\ rp_log[k].held[1] >= rp_cfg[1].hold_periods =>
                     rp_log[k].exit_reason # None
        /\ rp_log[k].entry # 0 => k - rp_log[k].entry < HoldLimit

\* with hold_periods 2 a position opened on the first bar survives the check
\* of the second bar and times out on the third
C34_Witness ==
    /\ Len(rp_log) = 3
    /\ rp_cfg[1].hold_periods = 2
    /\ rp_log[1].entry = 1
    /\ rp_log[2].held = Some(1) /\ rp_log[2].exit_reason = None
    /\ rp_log[3].held = Some(2) /\ rp_log[3].exit_reason = Some("timeout")

Occurrences(xs, x) == Cardinality({k \in 1..Len(xs) : xs[k] = x})

\* C35: the bars are replayed in non-decreasing timestamp order whatever the
\* order of the fetched series (and they are the fetched bars), each Trade's
\* exit timestamp is not earlier than its entry timestamp, and each
\* following Trade is entered on the bar the previous one exited or later.
C35_ReplayInTimeOrderWithoutOverlap ==
    /\ \A k \in 1..(Len(rp_log) - 1) : rp_log[k].bar.ts <= rp_log[k + 1].bar.ts
    /\ rp_pc = "done" =>
          \A b \in ReplayBars :
              Occurrences([k \in 1..Len(rp_log) |-> rp_log[k].bar], b)
                  = Occurrences(rp_fetched, b)
    /\ rp_st # None =>
          \A k \in 1..Len(rp_st[1].trades) :
              /\ rp_st[1].trades[k].signal.timestamp <= rp_st[1].trades[k].exit_timestamp
              /\ k < Len(rp_st[1].trades) =>
                     rp_st[1].trades[k].exit_timestamp
                         <= rp_st[1].trades[k + 1].signal.timestamp

\* a series fetched latest bar first yields two Trades, the second entered
\* on the bar on which the first exited
C35_Witness ==
    /\ rp_pc = "done"
    /\ [k \in 1..Len(rp_fetched) |-> rp_fetched[k].ts] = <<3, 1, 2>>
    /\ [k \in 1..Len(rp_log) |-> rp_log[k].bar.ts] = <<1, 2, 3>>
    /\ Len(rp_st[1].trades) = 2
    /\ rp_st[1].trades[1].signal.timestamp = 1
    /\ rp_st[1].trades[1].exit_timestamp = 2
    /\ rp_st[1].trades[2].signal.timestamp = 2
    /\ rp_st[1].trades[2].exit_timestamp = 3

\* the zone of the k-th bar replayed, by its price
ZoneOfBar(k) == ZoneOf(rp_st[1].strategy, rp_log[k].bar.price)

\* C37: every bar with a full window on which no position is open after the
\* exit processing, whose price is inside [min_price, max_price] and in the
\* longshot or favorite zone while the preceding bar's price was not in that
\* zone, opens a position: SELL for longshot, BUY for favorite.
C37_ZoneEntryOpensPosition ==
    \A k \in 2..Len(rp_log) :
        /\ rp_log[k].full /\ rp_log[k].free
        /\ ~ OutOfBand(rp_st[1].strategy, rp_log[k].bar.price)
        /\ ZoneOfBar(k) \in {"longshot", "favorite"}
        /\ ZoneOfBar(k - 1) # ZoneOfBar(k)
        => /\ rp_log[k].entry = k
           /\ rp_log[k].signal =
                  Some(IF ZoneOfBar(k) = "longshot" THEN SELL ELSE BUY)

(***************************************************************************)
(* Claims about two engines sharing a cache directory (checked under       *)
(* SpecRace)                                                               *)
(***************************************************************************)
\* C32: two engines that run or prefetch the same key are not mutually
\* excluded: whatever the other engine is doing, an engine that is about to
\* load, to fetch, to open the file for writing or to finish its write can
\* take that step, so both can miss, fetch and write, and a load can fall
\* inside the other engine's write; an engine fetches exactly as often as it
\* missed, and it misses exactly when no write has begun.
C32_NoMutualExclusion ==
    \A e \in Engines :
        /\ rc_pc[e] = "load" => ENABLED RaceLoad(e)
        /\ rc_pc[e] = "fetch" => ENABLED RaceFetch(e)
        /\ rc_pc[e] = "save" => ENABLED RaceOpen(e)
        /\ rc_pc[e] = "writing" => ENABLED RaceClose(e)
        /\ rc_pc[e] \in {"save", "writing"} => rc_got[e][1].found = "miss"
        /\ rc_obs[e].writes <= rc_obs[e].fetches
        /\ rc_obs[e].fetches <= rc_obs[e].calls

\* both engines missed, fetched and wrote the entry, and the second call of
\* engine 2 loaded the file while engine 1 was writing it and failed
C32_Witness ==
    /\ rc_obs[1].fetches = 1 /\ rc_obs[2].fetches = 1
    /\ rc_obs[2].writes = 1
    /\ rc_pc[1] = "writing"
    /\ rc_obs[2].calls = 2
    /\ rc_obs[2].during_write
    /\ rc_got[1][1].op = "prefetch_data"
    /\ rc_got[2] = Some([op |-> "run", found |-> "JSONDecodeError"])

\* the latest cycle moved a position from open_positions to closed_positions
ClosedInCycle == ex_obs.closed # <<>>

\* C39: every run_once cycle that moves a position from open_positions to
\* closed_positions has written the state file when it returns or raises, so
\* the file never lists as open a position the latest cycle closed and did
\* not open again.
C39_ClosingCycleSavesState ==
    CycleEnded /\ ClosedInCycle =>
        /\ ex_obs.saved
        /\ \A k \in 1..Len(ex_obs.closed) :
              InSeq(LoadState(ex_file).open_positions, ex_obs.closed[k]) =>
                  InSeq(ex_obs.opened, ex_obs.closed[k])

\* C40: with the guardrail enabled, a cycle at whose guardrail check the
\* breach condition holds places no order and records no new open position.
C40_BreachBlocksOrders ==
    ex_env.guardrail /\ ex_obs.breach = Some(TRUE) =>
        ex_obs.placed = <<>> /\ ex_obs.opened = <<>>

====
